---- MODULE Spec2Model ----
(***************************************************************************)
(* Verification model of the distributed execution substrate of            *)
(* distributed-llama: the partition planner (nn-core.cpp), the ratios      *)
(* parser (app.cpp), the slice matchers (nn-cpu.cpp, nn-network.cpp),      *)
(* the graph builder's sync schedule (llm.cpp) and the collectives of      *)
(* the network synchronizer (nn-network.cpp).                              *)
(***************************************************************************)
EXTENDS Integers, Sequences, FiniteSets, TLC

(***************************************************************************)
(* Bounds of the model.                                                    *)
(***************************************************************************)
MaxStrLen == 3
MaxRatio == 3
MaxNodes == 4
MaxThreads == 2
MaxForwards == 2
MaxConnections == 2
MaxClock == 4
NInputTokens == 4
NBatches == 2

(***************************************************************************)
(* Program constants.                                                      *)
(***************************************************************************)
DimAlign == 32
KvAlign == 1
FloatMantissaBits == 24
ControlPacketBytes == 12
PerfPacketBytes == 24
LLM_CTRL_PROFILE == 1
\* the ticks of clock() in a second, scaled down
CLOCKS_PER_SEC == 2

VARIABLES
    pc,          \* planner driver: position in runInferenceApp / test main
    ratiosStr,   \* args->ratiosStr, a sequence of characters (<<>> = none)
    nNodesArg,   \* nNodes handed to parseStageDefs
    hdr,         \* LlmHeader fields the planner reads
    stageDefs,   \* std::vector<NnStageDef>
    plan,        \* NnUnevenPartitionPlan, or NoPlan
    sourceSize,  \* the pipe a BATCHED_SLICE pointer / a slice sync is resolved on
    nodeIndex,   \* nodeConfig->nodeIndex of the resolving node
    cpuSlice,    \* what NnCpuDevice::resolvePointer resolved, in bytes
    netSlice,    \* what fillUnevenSlices filled in for that node, in bytes
    nThreads,    \* args->nThreads, the same on every node
    nodeConfig,  \* per node: NnNodeConfig.segments as built by buildLlmNodeInternal
    npc,         \* per node: "idle" (between forwards), "sync" or "stopped"
    fwd,         \* per node: the number of the forward it is in (0 = none yet)
    segmentIndex, \* per node: the segment the executor is at
    thr,         \* per node and thread: the position inside NnNetworkNodeSynchronizer::sync
    chan,        \* per ordered pair of nodes: the bytes in flight on their connection
    xv,          \* per node: what the row of pipe X holds
    zqv,         \* per node and slice owner: what that slice of the row of pipe ZQ holds
    lgv,         \* per node and slice owner: what that slice of the row of pipe LG holds
    sent,        \* per node: the peers its writes reached in the current segment (history)
    benchmark,   \* args->benchmark of the root process and of the worker processes
    controlPacket, \* per node: the controlPacket member of its inference object
    positionPipe, \* per node: the position in row 0 of the position pipe (-1: never written)
    batchSize,   \* per node: execution->batchSize
    lastPerf,    \* root: what its last read of the perf packets gave, by worker
    wpc,             \* the worker process: serve, setup, loop, forward, reply, terminated
    wsock,           \* the sockets of its NnNetwork: closed, blocking, nonblocking
    link,            \* the connection as the worker's sockets find it: up, closed (by the peer), error
    inbox,           \* the control packets on the root socket not yet read
    netTurbo,        \* args->netTurbo of the worker
    isFirstAttempt,  \* runWorkerApp: isFirstAttempt
    isTurboEnabled,  \* runWorkerApp: isTurboEnabled
    startTime,       \* runWorkerApp: startTime
    clock,           \* what clock() returns
    isFinished,      \* WorkerLlmInference::isFinished
    wpacket,         \* WorkerLlmInference::controlPacket
    nServed,         \* the connections NnNetwork::serve has accepted
    wfwd,            \* the calls of executor.forward() on this connection
    nPerf,           \* the perf packets written on this connection
    wlast,           \* how the last step of the worker ended
    lpc,             \* loadLlmNetWeightUneven: embedding, layer, ops, final, done, failed
    lh,              \* the header fields the loader reads beside those of hdr
    loaderNodeIndex, \* NnLocalWeightLoader::myNodeIndex
    filePtr,         \* the file pointer b, in bytes from the end of the file header
    loadLayerIndex,  \* loadLlmNetWeightUneven: layerIndex
    opIndex,         \* the tensor of the layer loaded next, from 1
    layerStartPtr,   \* loadLlmNetWeightUneven: layerStartPtr
    executorWeights, \* the (op name, op index) pairs executor->loadWeight was called with (history)
    bootPc,          \* the bootstrap of one worker: connected, written, read, threw
    bootArgs,        \* the AppCliArgs fields of the root that writeBootstrapPacket reads
    bootWire,        \* the bytes in flight from the root to the worker
    bootPacket,      \* runWorkerApp: boot, the packet readBootstrapPacket returned
    bootModelPath,   \* runWorkerApp: bootModelPath
    bootRatios,      \* runWorkerApp: bootRatios
    rootConfigPc,    \* NnRootConfigWriter::writeToWorkers: where the root is, and at which node
    rootNetConfig,   \* the NnNetConfig of the root
    rootNodeConfigs, \* the NnNodeConfig the root built for each worker
    downStream,      \* per worker: the bytes in flight from the root to it
    upStream,        \* per worker: the bytes in flight from it to the root
    readerPc,        \* per worker: what NnWorkerConfigReader reads next: net, node, done, threw
    readNetConfig,   \* per worker: what readNet returned
    readNodeConfig,  \* per worker: what readNode returned
    nWritten,        \* per worker: the bytes the root wrote on its socket
    nConsumed,       \* per worker: the bytes the worker read from the root socket
    nSockets,        \* NnNetwork::connect: nSockets, the number of workers
    connectPc,       \* NnNetwork::connect: where the root is, and at which worker
    servePc,         \* per worker: where it is in NnNetwork::serve
    backlog,         \* per worker: the connections to its listening socket not yet accepted, by node
    toWorker,        \* per worker: the messages in flight from the root to it
    toRoot,          \* per worker: the messages in flight from it to the root
    sockets,         \* per worker: the node at the far end of each of its sockets, by socket index
    hosts,           \* per worker: the workers whose hosts and ports it read, in order
    serveNodeIndex,  \* per worker: the nodeIndex it read from the root
    exchanged,       \* per worker: what went over its connection with the root, in order (history)
    tryPc,           \* tryReadControlPacket: idle, inside the recv loop, or threw
    tryBlocking,     \* whether the root socket of the worker is a blocking one
    tryLink,         \* the connection to the root: up or closed
    inFlight,        \* the bytes the root wrote that have not reached the worker
    rcvBuf,          \* the bytes in the worker's socket not yet taken by recv
    tryData,         \* the bytes of controlPacket filled by the current or last call
    tryAttempts,     \* maxAttempts of the current call of tryReadSocket
    tryResult,       \* what the last call returned
    tryPackets,      \* the control packets the calls returned, in order (history)
    trySent,         \* the control packets the root wrote, in order (history)
    exThreads,       \* SYNC_NODE_SLICES: nThreads of the executors
    exFloatType,     \* SYNC_NODE_SLICES: the float type of the pipe, h->syncType
    exPhase,         \* per node and thread: in writeMany, in readMany, or back from syncNodeSlices
    exIos,           \* per node and thread: the ios of syncNodeSlices, with the bytes still to move
    wire             \* per connection and direction: the bytes sent and not yet received

planVars == <<pc, ratiosStr, nNodesArg, hdr, stageDefs, plan>>
sliceVars == <<sourceSize, nodeIndex, cpuSlice, netSlice>>
loopVars == <<benchmark, controlPacket, positionPipe, batchSize, lastPerf>>
netVars == <<nThreads, nodeConfig, npc, fwd, segmentIndex, thr, chan, xv, zqv, lgv, sent, loopVars>>
workerVars == <<wpc, wsock, link, inbox, netTurbo, isFirstAttempt, isTurboEnabled, startTime, clock, isFinished, wpacket, nServed, wfwd, nPerf, wlast>>
loadVars == <<lpc, lh, loaderNodeIndex, filePtr, loadLayerIndex, opIndex, layerStartPtr, executorWeights>>
bootVars == <<bootPc, bootArgs, bootWire, bootPacket, bootModelPath, bootRatios>>
configVars == <<rootConfigPc, rootNetConfig, rootNodeConfigs, downStream, upStream, readerPc, readNetConfig, readNodeConfig, nWritten, nConsumed>>
connectVars == <<nSockets, connectPc, servePc, backlog, toWorker, toRoot, sockets, hosts, serveNodeIndex, exchanged>>
tryVars == <<tryPc, tryBlocking, tryLink, inFlight, rcvBuf, tryData, tryAttempts, tryResult, tryPackets, trySent>>
exchVars == <<exThreads, exFloatType, exPhase, exIos, wire>>
vars == <<planVars, sliceVars, netVars, workerVars, loadVars, bootVars, configVars, connectVars, tryVars, exchVars>>

NoPlan == [nNodes |-> 0, nStages |-> 0]
NoSize == [name |-> "", floatType |-> "F_32", x |-> 0]
NoSlice == [offset |-> -1, length |-> -1]

\* the global node indices of a stage
StageNodes(st) == { st.nodeIndices[i] : i \in 1..st.nNodes }

\* no network has been brought up
NoNet ==
    /\ nThreads = 0
    /\ nodeConfig = <<>> /\ npc = <<>> /\ fwd = <<>> /\ segmentIndex = <<>> /\ thr = <<>>
    /\ chan = <<>> /\ xv = <<>> /\ zqv = <<>> /\ lgv = <<>> /\ sent = <<>>
    /\ benchmark = <<>> /\ controlPacket = <<>> /\ positionPipe = <<>> /\ batchSize = <<>>
    /\ lastPerf = <<>>

\* no worker process is looked at
NoWorker ==
    /\ wpc = "" /\ wsock = "" /\ link = "" /\ inbox = <<>> /\ netTurbo = FALSE
    /\ isFirstAttempt = FALSE /\ isTurboEnabled = FALSE /\ startTime = 0 /\ clock = 0
    /\ isFinished = FALSE /\ wpacket = <<>> /\ nServed = 0 /\ wfwd = 0 /\ nPerf = 0 /\ wlast = ""

\* no weights are loaded
NoLoad ==
    /\ lpc = "" /\ lh = <<>> /\ loaderNodeIndex = 0 /\ filePtr = 0 /\ loadLayerIndex = 0 /\ opIndex = 0
    /\ layerStartPtr = 0 /\ executorWeights = {}

\* no bootstrap packet is looked at
NoBoot ==
    /\ bootPc = "" /\ bootArgs = <<>> /\ bootWire = <<>> /\ bootPacket = <<>>
    /\ bootModelPath = <<>> /\ bootRatios = <<>>

\* no config is streamed
NoConfig ==
    /\ rootConfigPc = <<>> /\ rootNetConfig = <<>> /\ rootNodeConfigs = <<>> /\ downStream = <<>>
    /\ upStream = <<>> /\ readerPc = <<>> /\ readNetConfig = <<>> /\ readNodeConfig = <<>>
    /\ nWritten = <<>> /\ nConsumed = <<>>

\* no network is being set up
NoConnect ==
    /\ nSockets = 0 /\ connectPc = <<>> /\ servePc = <<>> /\ backlog = <<>> /\ toWorker = <<>>
    /\ toRoot = <<>> /\ sockets = <<>> /\ hosts = <<>> /\ serveNodeIndex = <<>> /\ exchanged = <<>>

\* no control packet is being read byte by byte
NoTryRead ==
    /\ tryPc = "" /\ tryBlocking = FALSE /\ tryLink = "" /\ inFlight = <<>> /\ rcvBuf = <<>>
    /\ tryData = <<>> /\ tryAttempts = 0 /\ tryResult = "" /\ tryPackets = <<>> /\ trySent = <<>>

NoExchange ==
    /\ exThreads = 0 /\ exFloatType = "" /\ exPhase = <<>> /\ exIos = <<>> /\ wire = <<>>

Min(a, b) == IF a < b THEN a ELSE b
Max(a, b) == IF a > b THEN a ELSE b

RECURSIVE SumSeq(_)
SumSeq(s) == IF Len(s) = 0 THEN 0 ELSE s[1] + SumSeq(Tail(s))

RECURSIVE Pow2(_)
Pow2(n) == IF n = 0 THEN 1 ELSE 2 * Pow2(n - 1)

\* sequence s (1-based) as an array indexed from 0
Arr(s) == [i \in 0..(Len(s) - 1) |-> s[i + 1]]

(***************************************************************************)
(* IEEE-754 binary32 division w / W of two small positive integers, as     *)
(* m / 2^s with a 24-bit mantissa m, rounded to nearest-even.  The         *)
(* quotient bits are produced by long division so that no intermediate     *)
(* exceeds 32 bits.                                                        *)
(***************************************************************************)
RECURSIVE DivBits(_, _, _, _, _)
DivBits(r, W, m, s, nb) ==
    \* r: running remainder (< W); m: mantissa bits so far; nb: significant bits so far
    IF nb = FloatMantissaBits
    THEN LET up == (2 * r > W) \/ (2 * r = W /\ m % 2 = 1)
         IN IF up THEN [m |-> m + 1, s |-> s] ELSE [m |-> m, s |-> s]
    ELSE LET bit == IF 2 * r >= W THEN 1 ELSE 0
             r2 == 2 * r - bit * W
         IN DivBits(r2, W, 2 * m + bit, s + 1,
                    IF nb > 0 \/ bit = 1 THEN nb + 1 ELSE 0)

\* float q = w / W  for 0 < w <= W
FloatDiv(w, W) ==
    IF w = W THEN [m |-> Pow2(FloatMantissaBits - 1), s |-> FloatMantissaBits - 1]
    ELSE DivBits(w, W, 0, 0, 0)

\* floor(x / 2^s + 1/2) for 0 <= x < 2^31, without forming 2^s when s > 30
RoundShift(x, s) ==
    IF s = 0 THEN x
    ELSE IF s > 31 THEN 0
    ELSE ((x \div Pow2(s - 1)) + 1) \div 2

\* (NnUint)round((double)T * q): the product is exact in binary64
RoundMulDouble(T, q) ==
    LET mh == q.m \div 4096
        ml == q.m % 4096
        hi == T * mh
        lo == T * ml
    IN RoundShift(hi + (lo \div 4096), q.s - 12)

RECURSIVE BitLen(_)
BitLen(n) == IF n = 0 THEN 0 ELSE 1 + BitLen(n \div 2)

\* (NnUint)std::round(R * q) where R * q is a binary32 product
RoundMulFloat(R, q) ==
    LET P  == R * q.m
        L  == BitLen(P)
        sh == IF L > FloatMantissaBits THEN L - FloatMantissaBits ELSE 0
        d  == Pow2(sh)
        t  == P \div d
        rm == P % d
        up == (2 * rm > d) \/ (2 * rm = d /\ t % 2 = 1)
        m2 == (IF up THEN t + 1 ELSE t) * d
    IN RoundShift(m2, q.s)

(***************************************************************************)
(* nn-core.cpp: fillDimSplitForStage                                       *)
(***************************************************************************)
StageLen(totalDim, ratios, ratioSum, alignSize, i) ==
    LET nLocalNodes == Len(ratios)
        len0 == IF ratios[i] = 0 THEN 0
                ELSE RoundMulDouble(totalDim, FloatDiv(ratios[i], ratioSum))
        remainder == len0 % alignSize
        len1 == IF alignSize > 1 /\ remainder # 0
                THEN IF remainder >= alignSize \div 2
                     THEN len0 + (alignSize - remainder)
                     ELSE IF len0 > remainder THEN len0 - remainder ELSE len0
                ELSE len0
        len2 == IF alignSize > 1 /\ len1 = 0 /\ totalDim >= nLocalNodes * alignSize
                THEN alignSize ELSE len1
    IN len2

\* a slip in the residue rule: the last member is rounded like the others
RECURSIVE FillLengths_NoResidue(_, _, _, _, _, _, _)
FillLengths_NoResidue(totalDim, ratios, ratioSum, alignSize, i, remainingDim, acc) ==
    IF i > Len(ratios) THEN acc
    ELSE LET len == Min(StageLen(totalDim, ratios, ratioSum, alignSize, i), remainingDim)
         IN FillLengths_NoResidue(totalDim, ratios, ratioSum, alignSize, i + 1,
                                  remainingDim - len, Append(acc, len))

RECURSIVE FillLengths(_, _, _, _, _, _, _)
FillLengths(totalDim, ratios, ratioSum, alignSize, i, remainingDim, acc) ==
    IF i > Len(ratios) THEN acc
    ELSE LET len == IF i = Len(ratios) THEN remainingDim
                    ELSE Min(StageLen(totalDim, ratios, ratioSum, alignSize, i), remainingDim)
         IN FillLengths(totalDim, ratios, ratioSum, alignSize, i + 1,
                        remainingDim - len, Append(acc, len))

RECURSIVE StartsOf(_, _, _)
StartsOf(lengths, i, currentStart) ==
    IF i > Len(lengths) THEN <<>>
    ELSE <<currentStart>> \o StartsOf(lengths, i + 1, currentStart + lengths[i])

\* the starts and lengths written for the nodes [offset, offset + nLocalNodes)
fillDimSplitForStage(totalDim, ratios, alignSize) ==
    LET lengths == FillLengths(totalDim, ratios, SumSeq(ratios), alignSize, 1, totalDim, <<>>)
    IN [starts |-> StartsOf(lengths, 1, 0), lengths |-> lengths]

\* if (ratioSum < 1e-6) throw
RatioSumTooSmall(ratios) == SumSeq(ratios) = 0

(***************************************************************************)
(* nn-core.cpp: createPartitionPlan                                        *)
(***************************************************************************)
CreatePlanThrows(defs, h) ==
    \/ Len(defs) = 0
    \/ \E s \in 1..Len(defs) : Len(defs[s].tpRatios) = 0
    \/ h.nHeads % h.nKvHeads # 0
    \/ \E s \in 1..Len(defs) : RatioSumTooSmall(defs[s].tpRatios)

RECURSIVE NodeOffsetOf(_, _)
NodeOffsetOf(defs, s) ==
    IF s = 1 THEN 0 ELSE NodeOffsetOf(defs, s - 1) + Len(defs[s - 1].tpRatios)

RECURSIVE LayerOffsetOf(_, _)
LayerOffsetOf(defs, s) ==
    IF s = 1 THEN 0 ELSE LayerOffsetOf(defs, s - 1) + defs[s - 1].nLayers

StageConfigOf(defs, s) ==
    LET currentNodeOffset == NodeOffsetOf(defs, s)
        currentLayerOffset == LayerOffsetOf(defs, s)
        n == Len(defs[s].tpRatios)
    IN [stageIndex |-> s - 1,
        startLayer |-> currentLayerOffset,
        nLayers |-> defs[s].nLayers,
        endLayer |-> currentLayerOffset + defs[s].nLayers,
        nNodes |-> n,
        rootNodeIndex |-> currentNodeOffset,
        nodeIndices |-> [i \in 1..n |-> currentNodeOffset + i - 1]]

RECURSIVE ConcatSplit(_, _, _, _)
ConcatSplit(defs, totalDim, alignSize, s) ==
    IF s > Len(defs) THEN [starts |-> <<>>, lengths |-> <<>>]
    ELSE LET here == fillDimSplitForStage(totalDim, defs[s].tpRatios, alignSize)
             rest == ConcatSplit(defs, totalDim, alignSize, s + 1)
         IN [starts |-> here.starts \o rest.starts, lengths |-> here.lengths \o rest.lengths]

SplitArr(sp) == [starts |-> Arr(sp.starts), lengths |-> Arr(sp.lengths)]

\* a slip in the GQA derivation: the Q-head starts copied unscaled
HeadSplitOfKv_Unscaled(kv, gqaGroupSize) ==
    [starts |-> [i \in 0..(Len(kv.lengths) - 1) |-> kv.starts[i + 1]],
     lengths |-> [i \in 0..(Len(kv.lengths) - 1) |-> kv.lengths[i + 1] * gqaGroupSize]]

\* Q heads derived from the KV split of the same nodes
HeadSplitOfKv(kv, gqaGroupSize) ==
    [starts |-> [i \in 0..(Len(kv.lengths) - 1) |-> kv.starts[i + 1] * gqaGroupSize],
     lengths |-> [i \in 0..(Len(kv.lengths) - 1) |-> kv.lengths[i + 1] * gqaGroupSize]]

createPartitionPlan(defs, h) ==
    LET gqaGroupSize == h.nHeads \div h.nKvHeads
        kv == ConcatSplit(defs, h.nKvHeads, KvAlign, 1)
        nN == Len(kv.lengths)
    IN [nNodes |-> nN,
        nStages |-> Len(defs),
        stages |-> [s \in 1..Len(defs) |-> StageConfigOf(defs, s)],
        kvHeadSplit |-> SplitArr(kv),
        headSplit |-> HeadSplitOfKv(kv, gqaGroupSize),
        ffnSplit |-> SplitArr(ConcatSplit(defs, h.ffnDim, DimAlign, 1)),
        dimSplit |-> SplitArr(ConcatSplit(defs, h.dim, DimAlign, 1)),
        vocabSplit |-> SplitArr(ConcatSplit(defs, h.vocabSize, DimAlign, 1))]

(***************************************************************************)
(* nn-core.cpp getBytes; nn-network.cpp fillUnevenSlices; nn-cpu.cpp       *)
(* resolvePointer (the PNTR_BATCHED_SLICE branch).                         *)
(***************************************************************************)
getBytes(floatType, n) ==
    CASE floatType = "F_32" -> n * 4
      [] floatType = "F_16" -> n * 2

\* sum of split.lengths[0 .. nNodes-1]
getSplitTotal(split, nNodes) == SumSeq([i \in 1..nNodes |-> split.lengths[i - 1]])

\* tryMatch of fillUnevenSlices: the offsets are recomputed as running sums
MatchedSlices(split, nNodes, totalBytes) ==
    LET bytesPerUnit == totalBytes \div getSplitTotal(split, nNodes)
        sizes == [i \in 0..(nNodes - 1) |-> split.lengths[i] * bytesPerUnit]
    IN [offsets |-> [i \in 0..(nNodes - 1) |-> SumSeq([j \in 1..i |-> sizes[j - 1]])],
        sizes |-> sizes]

UniformSlices(nNodes, totalBytes) ==
    LET avgBytes == totalBytes \div nNodes
    IN [offsets |-> [i \in 0..(nNodes - 1) |-> i * avgBytes],
        sizes |-> [i \in 0..(nNodes - 1) |->
                     IF i = nNodes - 1 THEN totalBytes - (nNodes - 1) * avgBytes ELSE avgBytes]]

\* sliceOffsets / sliceSizes for all nNodes nodes of the net
fillUnevenSlices(p, nNodes, totalBytes) ==
    LET Hit(split) == getSplitTotal(split, nNodes) > 0
                      /\ totalBytes % getSplitTotal(split, nNodes) = 0
    IN IF p.nNodes = nNodes
       THEN IF Hit(p.vocabSplit) THEN MatchedSlices(p.vocabSplit, nNodes, totalBytes)
            ELSE IF Hit(p.ffnSplit) THEN MatchedSlices(p.ffnSplit, nNodes, totalBytes)
            ELSE IF Hit(p.dimSplit) THEN MatchedSlices(p.dimSplit, nNodes, totalBytes)
            ELSE IF Hit(p.headSplit) THEN MatchedSlices(p.headSplit, nNodes, totalBytes)
            ELSE IF Hit(p.kvHeadSplit) THEN MatchedSlices(p.kvHeadSplit, nNodes, totalBytes)
            ELSE UniformSlices(nNodes, totalBytes)
       ELSE UniformSlices(nNodes, totalBytes)

\* resolvePointer, PNTR_BATCHED_SLICE: the byte offset added to each batch
\* pointer and the byte length of the resolved slice
resolvePointer(p, netNNodes, nodeIdx, size) ==
    LET totalDim == size.x
        Hit(split) == getSplitTotal(split, p.nNodes) > 0
                      /\ totalDim % getSplitTotal(split, p.nNodes) = 0
        Apply(split) ==
            LET multiplier == totalDim \div getSplitTotal(split, p.nNodes)
            IN [myOffset |-> split.starts[nodeIdx] * multiplier,
                myLength |-> split.lengths[nodeIdx] * multiplier]
        legacy == [myOffset |-> (totalDim \div netNNodes) * nodeIdx,
                   myLength |-> totalDim \div netNNodes]
        found == IF p.nNodes # 0 /\ netNNodes = p.nNodes
                 THEN IF Hit(p.vocabSplit) THEN Apply(p.vocabSplit)
                      ELSE IF Hit(p.ffnSplit) THEN Apply(p.ffnSplit)
                      ELSE IF Hit(p.headSplit) THEN Apply(p.headSplit)
                      ELSE IF Hit(p.kvHeadSplit) THEN Apply(p.kvHeadSplit)
                      ELSE legacy
                 ELSE legacy
        offsetBytes == getBytes(size.floatType, found.myOffset)
        totalBytes == getBytes(size.floatType, totalDim)
    IN IF offsetBytes >= totalBytes
       THEN [offset |-> 0, length |-> 0]
       ELSE [offset |-> offsetBytes, length |-> getBytes(size.floatType, found.myLength)]

(***************************************************************************)
(* app.cpp: parseStageDefs.  A string is a sequence of characters.         *)
(***************************************************************************)
Digits == {"0", "1", "2", "3", "4", "5", "6", "7", "8", "9"}

DigitVal(c) ==
    CASE c = "0" -> 0 [] c = "1" -> 1 [] c = "2" -> 2 [] c = "3" -> 3 [] c = "4" -> 4
      [] c = "5" -> 5 [] c = "6" -> 6 [] c = "7" -> 7 [] c = "8" -> 8 [] OTHER -> 9

\* auto isAllDigits
isAllDigits(t) == Len(t) > 0 /\ \A i \in 1..Len(t) : t[i] \in Digits

\* std::stoul on a string of digits
RECURSIVE StoUL(_)
StoUL(t) == IF Len(t) = 0 THEN 0 ELSE StoUL(SubSeq(t, 1, Len(t) - 1)) * 10 + DigitVal(t[Len(t)])

\* length of the leading run of digits
RECURSIVE DigitPrefixLen(_)
DigitPrefixLen(t) ==
    IF Len(t) = 0 \/ t[1] \notin Digits THEN 0 ELSE 1 + DigitPrefixLen(Tail(t))

\* std::stof: the value of the longest numeric prefix; -1 when it throws
Stof(r) == IF DigitPrefixLen(r) = 0 THEN -1 ELSE StoUL(SubSeq(r, 1, DigitPrefixLen(r)))

\* while (std::getline(ss, seg, sep)) if (!seg.empty()) parts.push_back(seg)
RECURSIVE SplitBy(_, _, _)
SplitBy(s, sep, cur) ==
    LET flush == IF Len(cur) > 0 THEN <<cur>> ELSE <<>>
    IN IF Len(s) = 0 THEN flush
       ELSE IF s[1] = sep THEN flush \o SplitBy(Tail(s), sep, <<>>)
       ELSE SplitBy(Tail(s), sep, Append(cur, s[1]))

ReplaceChars(s, from, to) == [i \in 1..Len(s) |-> IF s[i] \in from THEN to ELSE s[i]]

\* auto splitStages
splitStages(raw) == SplitBy(ReplaceChars(raw, {";", "|"}, "*"), "*", <<>>)

\* std::string::rfind(c): 1-based position of the last c, 0 for npos
RFind(s, c) ==
    IF \E i \in 1..Len(s) : s[i] = c
    THEN CHOOSE i \in 1..Len(s) : s[i] = c /\ \A j \in (i + 1)..Len(s) : s[j] # c
    ELSE 0

\* auto parseRatiosAndMaybeLayers: [ok, ratios, layers]
parseRatiosAndMaybeLayers(segment) ==
    LET atPos == RFind(segment, "@")
        atTail == SubSeq(segment, atPos + 1, Len(segment))
        atHit == atPos # 0 /\ atPos < Len(segment) /\ isAllDigits(atTail)
        layersAt == IF atHit THEN StoUL(atTail) ELSE 0
        partAt == IF atHit THEN SubSeq(segment, 1, atPos - 1) ELSE segment
        hasComma == \E i \in 1..Len(segment) : segment[i] = ","
        lastColon == RFind(segment, ":")
        colTail == SubSeq(segment, lastColon + 1, Len(segment))
        colHit == layersAt = 0 /\ hasComma /\ lastColon # 0 /\ lastColon < Len(segment)
                  /\ isAllDigits(colTail)
        explicitLayers == IF colHit THEN StoUL(colTail) ELSE layersAt
        ratioPart == IF colHit THEN SubSeq(segment, 1, lastColon - 1) ELSE partAt
        toks == SplitBy(ReplaceChars(ratioPart, {","}, ":"), ":", <<>>)
        ratios == [i \in 1..Len(toks) |-> Stof(toks[i])]
    IN [ok |-> Len(toks) > 0 /\ \A i \in 1..Len(toks) : ratios[i] >= 0,
        ratios |-> ratios,
        layers |-> explicitLayers]

\* a slip: the explicit layer count of a stage is dropped
ParsedStage_NoLayers(seg) ==
    LET p == parseRatiosAndMaybeLayers(seg) IN [nLayers |-> 0, tpRatios |-> p.ratios]

ParsedStage(seg) ==
    LET p == parseRatiosAndMaybeLayers(seg) IN [nLayers |-> p.layers, tpRatios |-> p.ratios]

\* auto sumNodeCounts
sumNodeCounts(st) == SumSeq([i \in 1..Len(st) |-> Len(st[i].tpRatios)])

SelectIdx(stages, P(_)) == SelectSeq([i \in 1..Len(stages) |-> i], P)

\* a slip in the remainder rule: the last auto stage is rounded like the others
RECURSIVE AssignProportional_NoRemainder(_, _, _, _, _, _)
AssignProportional_NoRemainder(stages, autoIdx, w, remainingLayers, i, allocatedSoFar) ==
    IF i > Len(autoIdx) THEN stages
    ELSE LET totalWeight == SumSeq(w)
             raw == IF w[i] = 0 THEN 0
                    ELSE RoundMulFloat(remainingLayers, FloatDiv(w[i], totalWeight))
             myLayers == IF allocatedSoFar + raw > remainingLayers
                         THEN remainingLayers - allocatedSoFar ELSE raw
         IN AssignProportional_NoRemainder([stages EXCEPT ![autoIdx[i]].nLayers = myLayers],
                               autoIdx, w, remainingLayers, i + 1, allocatedSoFar + myLayers)

\* the proportional loop of autoAssignLayers over the auto stages, in order
RECURSIVE AssignProportional(_, _, _, _, _, _)
AssignProportional(stages, autoIdx, w, remainingLayers, i, allocatedSoFar) ==
    IF i > Len(autoIdx) THEN stages
    ELSE LET totalWeight == SumSeq(w)
             raw == IF w[i] = 0 THEN 0
                    ELSE RoundMulFloat(remainingLayers, FloatDiv(w[i], totalWeight))
             myLayers == IF i = Len(autoIdx) THEN remainingLayers - allocatedSoFar
                         ELSE IF allocatedSoFar + raw > remainingLayers
                              THEN remainingLayers - allocatedSoFar ELSE raw
         IN AssignProportional([stages EXCEPT ![autoIdx[i]].nLayers = myLayers],
                               autoIdx, w, remainingLayers, i + 1, allocatedSoFar + myLayers)

\* auto autoAssignLayers: [ok, stages]
autoAssignLayers(stages, stageWeights, nLayers) ==
    LET IsAuto(i) == stages[i].nLayers = 0
        autoLayerIndices == SelectIdx(stages, IsAuto)
        totalExplicitLayers == SumSeq([i \in 1..Len(stages) |-> stages[i].nLayers])
        remainingLayers == nLayers - totalExplicitLayers
        w == [i \in 1..Len(autoLayerIndices) |-> stageWeights[autoLayerIndices[i]]]
        nAuto == Len(autoLayerIndices)
        base == remainingLayers \div nAuto
        rem == remainingLayers % nAuto
        uniform == [i \in 1..Len(stages) |->
                      IF IsAuto(i)
                      THEN LET k == CHOOSE k \in 1..nAuto : autoLayerIndices[k] = i
                           IN [stages[i] EXCEPT !.nLayers = base + (IF k - 1 < rem THEN 1 ELSE 0)]
                      ELSE stages[i]]
    IN IF totalExplicitLayers > nLayers THEN [ok |-> FALSE, stages |-> <<>>]
       ELSE IF nAuto = 0
            THEN [ok |-> remainingLayers = 0, stages |-> IF remainingLayers = 0 THEN stages ELSE <<>>]
       ELSE IF SumSeq(w) = 0 THEN [ok |-> TRUE, stages |-> uniform]
       ELSE [ok |-> TRUE,
             stages |-> AssignProportional(stages, autoLayerIndices, w, remainingLayers, 1, 0)]

\* a slip in pass 2: the node count of the two-level form is not compared
parseStageDefs_NoCountCheck(str, nNodes, nLayers) ==
    LET parts == splitStages(str)
        Fail == [ok |-> FALSE, stages |-> <<>>]
        \* pass 1: legacy per-stage TP ratios
        p1ok == \A i \in 1..Len(parts) : parseRatiosAndMaybeLayers(parts[i]).ok
        stages1 == [i \in 1..Len(parts) |-> ParsedStage(parts[i])]
        weights1 == [i \in 1..Len(parts) |-> SumSeq(stages1[i].tpRatios)]
        \* pass 2: stage weights, then per-stage TP ratios
        head == parseRatiosAndMaybeLayers(parts[1])
        stageWeights == head.ratios
        nStages == Len(stageWeights)
        stages2 == [i \in 1..nStages |-> ParsedStage(parts[1 + i])]
    IN IF Len(parts) = 0 THEN Fail
       ELSE IF ~p1ok THEN Fail
       ELSE IF sumNodeCounts(stages1) = nNodes
            THEN autoAssignLayers(stages1, weights1, nLayers)
       ELSE IF Len(parts) < 2 THEN Fail
       ELSE IF head.layers # 0 THEN Fail
       ELSE IF Len(parts) # 1 + nStages THEN Fail
       ELSE autoAssignLayers(stages2, stageWeights, nLayers)

\* parseStageDefs(ratiosStr, nNodes, nLayers): [ok, stages]
parseStageDefs(str, nNodes, nLayers) ==
    LET parts == splitStages(str)
        Fail == [ok |-> FALSE, stages |-> <<>>]
        \* pass 1: legacy per-stage TP ratios
        p1ok == \A i \in 1..Len(parts) : parseRatiosAndMaybeLayers(parts[i]).ok
        stages1 == [i \in 1..Len(parts) |-> ParsedStage(parts[i])]
        weights1 == [i \in 1..Len(parts) |-> SumSeq(stages1[i].tpRatios)]
        \* pass 2: stage weights, then per-stage TP ratios
        head == parseRatiosAndMaybeLayers(parts[1])
        stageWeights == head.ratios
        nStages == Len(stageWeights)
        stages2 == [i \in 1..nStages |-> ParsedStage(parts[1 + i])]
    IN IF Len(parts) = 0 THEN Fail
       ELSE IF ~p1ok THEN Fail
       ELSE IF sumNodeCounts(stages1) = nNodes
            THEN autoAssignLayers(stages1, weights1, nLayers)
       ELSE IF Len(parts) < 2 THEN Fail
       ELSE IF head.layers # 0 THEN Fail
       ELSE IF Len(parts) # 1 + nStages THEN Fail
       ELSE IF sumNodeCounts(stages2) # nNodes THEN Fail
       ELSE autoAssignLayers(stages2, stageWeights, nLayers)

(***************************************************************************)
(* Inputs of the planner.                                                  *)
(***************************************************************************)
Chars == {"0", "1", "2", ":", ",", "*", "@"}

\* longer ratios strings: the forms of the usage text of parseStageDefs
NamedStrings ==
    { <<"1", ":", "1", "*", "1", "*", "1">>,
      <<"1", "*", "1", "*", "1">>,
      <<"1", "*", "2", "*", "2">>,
      <<"1", ":", "2", "*", "1", ":", "1">>,
      <<"1", ":", "2", "*", "1", ":", "1", "*", "2", ":", "3">>,
      <<"1", ":", "2", "*", "1", ":", "1", "@", "1", "*", "2", ":", "3", "@", "2">>,
      <<"1", ":", "1", "@", "1", "*", "1", ":", "1", "@", "1">>,
      <<"1", "@", "1", "*", "1", ":", "1", "@", "3">>,
      <<"1", "@", "3", "*", "1">>,
      <<"1", ",", "1", ":", "2">>,
      <<"1", ",", "1", ":", "1", ";", "1", ",", "1", ":", "1">>,
      <<"1", ",", "1", ":", "1", ";", "1", ",", "1", ":", "2">>,
      <<"1", ",", "1", "|", "1", ",", "1">>,
      <<"1", ":", "1", ":", "1">>,
      <<"1", ":", "2", ":", "1">>,
      <<"1", ":", "1", ":", "1", ":", "1">>,
      <<"0", ":", "0">>,
      <<"0", ":", "1", "*", "1">>,
      <<"1", ":", "2", "@", "4">>,
      <<"2", ":", "1", "*", "1", "@", "2">> }

InputStrings == (UNION {[1..n -> Chars] : n \in 1..MaxStrLen}) \cup NamedStrings

HeaderSet ==
    { [nHeads |-> 8, nKvHeads |-> 4, vocabSize |-> 160, ffnDim |-> 192, dim |-> 128, nLayers |-> 4],
      [nHeads |-> 6, nKvHeads |-> 3, vocabSize |-> 100, ffnDim |-> 96, dim |-> 96, nLayers |-> 2],
      [nHeads |-> 6, nKvHeads |-> 4, vocabSize |-> 96, ffnDim |-> 128, dim |-> 64, nLayers |-> 3] }

\* the worked example of the planner: 16 heads, 8 KV heads, dim 1024,
\* 24 layers, run on 4 nodes with --ratios "1:2*1:1@10*2:3@14"
CaseRatios ==
    <<"1", ":", "2", "*", "1", ":", "1", "@", "1", "0", "*", "2", ":", "3", "@", "1", "4">>
CaseHeaders ==
    { [nHeads |-> 16, nKvHeads |-> 8, vocabSize |-> 2048, ffnDim |-> f, dim |-> 1024, nLayers |-> 24]
      : f \in {2048, 4096} }

\* the model files the command line is run with
CliHeaders == { h \in HeaderSet : h.nHeads = 2 * h.nKvHeads }

RatiosOfLen(k) == [1..k -> 1..MaxRatio]

\* the ends of the stages, in order, for the cut positions C over n nodes
EndsOf(C, n) ==
    LET S == C \cup {n}
    IN [k \in 1..Cardinality(S) |-> CHOOSE e \in S : Cardinality({x \in S : x < e}) = k - 1]

\* stage definitions written by hand, as the tests of the planner do:
\* the ratios r of all nodes cut into stages, stage k with k layers
MakeDefs(r, C) ==
    LET ends == EndsOf(C, Len(r))
    IN [k \in 1..Len(ends) |->
          [nLayers |-> k,
           tpRatios |-> SubSeq(r, (IF k = 1 THEN 0 ELSE ends[k - 1]) + 1, ends[k])]]

(***************************************************************************)
(* The planner driver: runInferenceApp (app.cpp) with a ratios string, or  *)
(* a test main that hands stage definitions to createPartitionPlan.        *)
(***************************************************************************)
InitPlan ==
    /\ pc = "start"
    /\ \/ ratiosStr \in InputStrings /\ nNodesArg \in 1..MaxNodes /\ hdr \in CliHeaders
       \/ ratiosStr = CaseRatios /\ nNodesArg = 4 /\ hdr \in CaseHeaders
       \/ ratiosStr = <<>> /\ nNodesArg = 0 /\ hdr \in HeaderSet
    /\ stageDefs = <<>>
    /\ plan = NoPlan
    /\ sourceSize = NoSize /\ nodeIndex = 0 /\ cpuSlice = NoSlice /\ netSlice = NoSlice
    /\ NoNet
    /\ NoWorker
    /\ NoLoad
    /\ NoBoot
    /\ NoConfig
    /\ NoConnect
    /\ NoTryRead
    /\ NoExchange

\* runInferenceApp: the nNodes > nKvHeads check, then parseStageDefs
ParseRatios ==
    /\ pc = "start"
    /\ ratiosStr # <<>>
    /\ LET r == parseStageDefs(ratiosStr, nNodesArg, hdr.nLayers)
       IN IF nNodesArg > hdr.nKvHeads \/ ~r.ok
          THEN pc' = "failed" /\ UNCHANGED stageDefs
          ELSE pc' = "parsed" /\ stageDefs' = r.stages
    /\ UNCHANGED <<exchVars, tryVars, connectVars, configVars, bootVars, loadVars, workerVars, ratiosStr, nNodesArg, hdr, plan, sliceVars, netVars>>

\* test_ppCreateplan.cpp main: stageDefs.push_back({nLayers, tpRatios})
TestStageDefs ==
    /\ pc = "start"
    /\ ratiosStr = <<>>
    /\ \E n \in 1..MaxNodes : \E r \in RatiosOfLen(n) : \E C \in SUBSET (1..(n - 1)) :
          stageDefs' = MakeDefs(r, C)
    /\ pc' = "parsed"
    /\ UNCHANGED <<exchVars, tryVars, connectVars, configVars, bootVars, loadVars, workerVars, ratiosStr, nNodesArg, hdr, plan, sliceVars, netVars>>

CreatePlan ==
    /\ pc = "parsed"
    /\ IF CreatePlanThrows(stageDefs, hdr)
       THEN pc' = "failed" /\ UNCHANGED plan
       ELSE pc' = "planned" /\ plan' = createPartitionPlan(stageDefs, hdr)
    /\ UNCHANGED <<exchVars, tryVars, connectVars, configVars, bootVars, loadVars, workerVars, ratiosStr, nNodesArg, hdr, stageDefs, sliceVars, netVars>>

NextPlan == ParseRatios \/ TestStageDefs \/ CreatePlan

SpecPlan == InitPlan /\ [][NextPlan]_vars

(***************************************************************************)
(* The slice matchers on one plan: the CPU device resolves the             *)
(* BATCHED_SLICE pointer of a node on a pipe (llm.cpp builds such pointers *)
(* on ZQ and LG), syncNodeSlices fills the slices of the same pipe row.    *)
(***************************************************************************)
SliceRatios == {1, 2}

SliceDefs ==
    UNION { { MakeDefs(r, C) : r \in [1..n -> SliceRatios], C \in SUBSET (1..(n - 1)) }
            : n \in 1..MaxNodes }

\* netBuilder.addPipe("LG", ...), addPipe("ZQ", size2D(h->syncType, nBatches, h->dim * nNodes))
SlicedPipes(h, nNodes) ==
    { [name |-> "LG", floatType |-> "F_32", x |-> h.vocabSize] }
    \cup { [name |-> "ZQ", floatType |-> ft, x |-> h.dim * nNodes] : ft \in {"F_32", "F_16"} }

InitSlice ==
    /\ pc = "parsed"
    /\ ratiosStr = <<>> /\ nNodesArg = 0
    /\ hdr \in CliHeaders
    /\ stageDefs \in SliceDefs
    /\ plan = NoPlan
    /\ sourceSize = NoSize /\ nodeIndex = 0 /\ cpuSlice = NoSlice /\ netSlice = NoSlice
    /\ NoNet
    /\ NoWorker
    /\ NoLoad
    /\ NoBoot
    /\ NoConfig
    /\ NoConnect
    /\ NoTryRead
    /\ NoExchange

ResolvePointer ==
    /\ pc = "planned"
    /\ \E size \in SlicedPipes(hdr, plan.nNodes) : \E n \in 0..(plan.nNodes - 1) :
          /\ sourceSize' = size
          /\ nodeIndex' = n
          /\ cpuSlice' = resolvePointer(plan, plan.nNodes, n, size)
    /\ pc' = "resolved"
    /\ UNCHANGED <<exchVars, tryVars, connectVars, configVars, bootVars, loadVars, workerVars, ratiosStr, nNodesArg, hdr, stageDefs, plan, netSlice, netVars>>

\* syncNodeSlices: fillUnevenSlices(plan, nTotalNodes, nBytes, sliceOffsets, sliceSizes)
FillSlices ==
    /\ pc = "resolved"
    /\ LET f == fillUnevenSlices(plan, plan.nNodes, getBytes(sourceSize.floatType, sourceSize.x))
       IN netSlice' = [offset |-> f.offsets[nodeIndex], length |-> f.sizes[nodeIndex]]
    /\ pc' = "sliced"
    /\ UNCHANGED <<exchVars, tryVars, connectVars, configVars, bootVars, loadVars, workerVars, ratiosStr, nNodesArg, hdr, stageDefs, plan, sourceSize, nodeIndex, cpuSlice, netVars>>

NextSlice == CreatePlan \/ ResolvePointer \/ FillSlices

SpecSlice == InitSlice /\ [][NextSlice]_vars

(***************************************************************************)
(* The distributed forward.  Every node holds the plan and its own         *)
(* NnNodeConfig; the root starts a forward with a control packet, every    *)
(* node walks its segments, and after the ops of a segment its threads run *)
(* NnNetworkNodeSynchronizer::sync over the segment's syncs.  One batch    *)
(* row per forward.  A connection carries a FIFO stream of bytes; a send   *)
(* never blocks (the rows fit the socket buffers).  What a node does on    *)
(* its own between two waits (ops, writes no other thread interferes with, *)
(* syncs without an io) is one step with the wait it follows.              *)
(***************************************************************************)
NetHeader ==
    [nHeads |-> 120, nKvHeads |-> 60, vocabSize |-> 960, ffnDim |-> 960, dim |-> 960, nLayers |-> 1]

\* every way of cutting 1 .. MaxNodes equally weighted nodes into stages of one layer
NetStageDefs ==
    UNION { { [k \in 1..Len(EndsOf(C, n)) |->
                 [nLayers |-> 1,
                  tpRatios |-> [i \in 1..(EndsOf(C, n)[k] - (IF k = 1 THEN 0 ELSE EndsOf(C, n)[k - 1])) |-> 1]]]
              : C \in SUBSET (1..(n - 1)) }
            : n \in 1..MaxNodes }

Nodes == 0..(plan.nNodes - 1)
Threads == 0..(nThreads - 1)

\* what a pipe row or a slice of it holds: the output of the ops of segment
\* g of node n in forward f
Val(n, f, g) == [n |-> n, f |-> f, seg |-> g]
Uninit == [n |-> -1, f |-> 0, seg |-> 0]
\* bytes of different writes, or a part of a write
Mixed == [n |-> -2, f |-> 0, seg |-> 0]

(***************************************************************************)
(* llm.cpp: buildLlmNetUneven, buildLlmNodeInternal.  A segment is kept as *)
(* its kind, the pipe its ops write ("" when it has none), and its syncs.  *)
(***************************************************************************)
\* getStageForNode: the 1-based position of the stage holding node n
StageOfNode(p, n) == CHOOSE s \in 1..p.nStages : n \in StageNodes(p.stages[s])

\* netBuilder.addPipe: the bytes of one batch row (syncType F_32)
PipeBytes(h, nNodes, pipe) ==
    CASE pipe = "X" -> getBytes("F_32", h.dim)
      [] pipe = "LG" -> getBytes("F_32", h.vocabSize)
      [] pipe = "ZQ" -> getBytes("F_32", h.dim * nNodes)

SyncOf(pipe, syncType) == [pipe |-> pipe, syncType |-> syncType]

\* start.addSync(n->xPipeIndex, SYNC_WITH_ROOT) only in the first stage
StartSegment(isFirstStage, n) ==
    [kind |-> "start",
     writes |-> IF isFirstStage /\ n = 0 THEN "X" ELSE "",
     syncs |-> IF isFirstStage THEN <<SyncOf("X", "SYNC_WITH_ROOT")>> ELSE <<>>]

\* a slip in the PP-Recv segment: the broadcast without the receive before it
PpRecvSyncs_NoRecv == <<SyncOf("X", "SYNC_WITH_ROOT")>>

\* ppRecvSeg.addSync(X, SYNC_PP_RECV); ppRecvSeg.addSync(X, SYNC_WITH_ROOT)
PpRecvSyncs == <<SyncOf("X", "SYNC_PP_RECV"), SyncOf("X", "SYNC_WITH_ROOT")>>

\* the att and ff segments of the layers [layerIndex, endLayer)
RECURSIVE LayerSegments(_, _)
LayerSegments(layerIndex, endLayer) ==
    IF layerIndex >= endLayer THEN <<>>
    ELSE << [kind |-> "att", writes |-> "ZQ", syncs |-> <<SyncOf("ZQ", "SYNC_NODE_SLICES")>>],
            [kind |-> "ff", writes |-> "ZQ", syncs |-> <<SyncOf("ZQ", "SYNC_NODE_SLICES")>>] >>
         \o LayerSegments(layerIndex + 1, endLayer)

\* end: the ops and the gather only on the last stage, otherwise empty
EndSegment(isLastStage) ==
    [kind |-> "end",
     writes |-> IF isLastStage THEN "LG" ELSE "",
     syncs |-> IF isLastStage THEN <<SyncOf("LG", "SYNC_NODE_SLICES_EXCEPT_ROOT")>> ELSE <<>>]

buildLlmNodeInternal(p, n) ==
    LET myStage == p.stages[StageOfNode(p, n)]
        isFirstStage == myStage.stageIndex = 0
        isLastStage == myStage.stageIndex = p.nStages - 1
        ppRecvSeg == [kind |-> "pp_recv", writes |-> "", syncs |-> PpRecvSyncs]
        ppSendSeg == [kind |-> "pp_send", writes |-> "X", syncs |-> <<SyncOf("X", "SYNC_PP_SEND")>>]
        rootWaitSeg == [kind |-> "root_wait", writes |-> "",
                        syncs |-> <<SyncOf("LG", "SYNC_NODE_SLICES_EXCEPT_ROOT")>>]
    IN <<StartSegment(isFirstStage, n)>>
       \o (IF ~isFirstStage THEN <<ppRecvSeg>> ELSE <<>>)
       \o LayerSegments(myStage.startLayer, myStage.endLayer)
       \o (IF ~isLastStage THEN <<ppSendSeg>> ELSE <<>>)
       \o <<EndSegment(isLastStage)>>
       \o (IF n = 0 /\ ~isLastStage THEN <<rootWaitSeg>> ELSE <<>>)

(***************************************************************************)
(* nn-network.cpp: the sockets of a node and the collectives.              *)
(***************************************************************************)
\* NnNetwork::serve / connect: the node at the far end of socket s of node m
PeerOf(m, s) == IF s < m THEN s ELSE s + 1

\* NnNetwork::getSocketIndexForNode
getSocketIndexForNode(targetNodeIndex) ==
    IF targetNodeIndex > 0 THEN targetNodeIndex - 1 ELSE 0

\* the targets [startIdx, startIdx + nSocketsPerThread) of thread threadIndex
ThreadShare(targets, nThr, threadIndex) ==
    LET nTargets == Len(targets)
        PerThread(u) == nTargets \div nThr + (IF nTargets % nThr > u THEN 1 ELSE 0)
        startIdx == SumSeq([u \in 1..threadIndex |-> PerThread(u - 1)])
    IN SubSeq(targets, startIdx + 1, startIdx + PerThread(threadIndex))

\* the target nodes collected by syncWithRoot (root side) and syncNodeSlices;
\* groupNodes and groupRootIndex are those of the stage, or of the whole net
\* when the stage pointer is null
GroupTargets(groupNodes, groupRootIndex, myNodeIndex, onlyFromWorkerToRoot) ==
    LET Keep(targetNode) ==
            /\ targetNode # myNodeIndex
            /\ ~(onlyFromWorkerToRoot /\ myNodeIndex # groupRootIndex /\ targetNode # groupRootIndex)
    IN SelectSeq(groupNodes, Keep)

\* an io of writeMany / readMany: the socket, the node the code means to
\* reach, the bytes, and the slice of the row ("row" or the owner of the slice)
IoOf(node, len, slot) ==
    [sock |-> getSocketIndexForNode(node), node |-> node, len |-> len, slot |-> slot]

NonEmptyIos(ios) == LET Has(io) == io.len > 0 IN SelectSeq(ios, Has)

\* syncWithRoot with the stage of the node
syncWithRoot(myStage, myNodeIndex, nBytes, nThr, threadIndex) ==
    LET share == ThreadShare(GroupTargets(myStage.nodeIndices, myStage.rootNodeIndex, myNodeIndex, FALSE),
                             nThr, threadIndex)
    IN IF myNodeIndex = myStage.rootNodeIndex
       THEN [writes |-> [i \in 1..Len(share) |-> IoOf(share[i], nBytes, "row")],
             reads |-> <<>>]
       ELSE [writes |-> <<>>,
             reads |-> IF threadIndex = 0 THEN <<IoOf(myStage.rootNodeIndex, nBytes, "row")>> ELSE <<>>]

\* a slip in the receive phase: every read sized by the reader's own slice
syncNodeSlices_OwnSizeReads(onlyFromWorkerToRoot, p, stageOrNull, myNodeIndex, nBytes, nThr, threadIndex) ==
    LET isNull == stageOrNull = NoPlan
        groupRootIndex == IF isNull THEN 0 ELSE stageOrNull.rootNodeIndex
        groupNodes == IF isNull THEN [i \in 1..p.nNodes |-> i - 1] ELSE stageOrNull.nodeIndices
        amIRoot == myNodeIndex = groupRootIndex
        share == ThreadShare(GroupTargets(groupNodes, groupRootIndex, myNodeIndex, onlyFromWorkerToRoot),
                             nThr, threadIndex)
        slices == fillUnevenSlices(p, p.nNodes, nBytes)
    IN [writes |-> IF onlyFromWorkerToRoot /\ amIRoot THEN <<>>
                   ELSE [i \in 1..Len(share) |-> IoOf(share[i], slices.sizes[myNodeIndex], myNodeIndex)],
        reads |-> IF onlyFromWorkerToRoot /\ ~amIRoot THEN <<>>
                  ELSE [i \in 1..Len(share) |-> IoOf(share[i], slices.sizes[myNodeIndex], share[i])]]

\* syncNodeSlices; stageOrNull is a stage, or NoPlan for the null pointer
syncNodeSlices(onlyFromWorkerToRoot, p, stageOrNull, myNodeIndex, nBytes, nThr, threadIndex) ==
    LET isNull == stageOrNull = NoPlan
        groupRootIndex == IF isNull THEN 0 ELSE stageOrNull.rootNodeIndex
        groupNodes == IF isNull THEN [i \in 1..p.nNodes |-> i - 1] ELSE stageOrNull.nodeIndices
        amIRoot == myNodeIndex = groupRootIndex
        share == ThreadShare(GroupTargets(groupNodes, groupRootIndex, myNodeIndex, onlyFromWorkerToRoot),
                             nThr, threadIndex)
        slices == fillUnevenSlices(p, p.nNodes, nBytes)
    IN [writes |-> IF onlyFromWorkerToRoot /\ amIRoot THEN <<>>
                   ELSE [i \in 1..Len(share) |-> IoOf(share[i], slices.sizes[myNodeIndex], myNodeIndex)],
        reads |-> IF onlyFromWorkerToRoot /\ ~amIRoot THEN <<>>
                  ELSE [i \in 1..Len(share) |-> IoOf(share[i], slices.sizes[share[i]], share[i])]]

\* syncPpSend, called by thread 0 only
syncPpSend(p, myStage, myNodeIndex, nBytes, threadIndex) ==
    [writes |-> IF threadIndex = 0 /\ myStage.rootNodeIndex = myNodeIndex
                   /\ myStage.stageIndex + 1 < p.nStages
                THEN <<IoOf(p.stages[myStage.stageIndex + 2].rootNodeIndex, nBytes, "row")>>
                ELSE <<>>,
     reads |-> <<>>]

\* syncPpRecv, called by thread 0 only
syncPpRecv(p, myStage, myNodeIndex, nBytes, threadIndex) ==
    [writes |-> <<>>,
     reads |-> IF threadIndex = 0 /\ myStage.rootNodeIndex = myNodeIndex /\ myStage.stageIndex > 0
               THEN <<IoOf(p.stages[myStage.stageIndex].rootNodeIndex, nBytes, "row")>>
               ELSE <<>>]

\* one sync of NnNetworkNodeSynchronizer::sync for one thread: the writes it
\* makes, then the reads it waits for (ios of no bytes move nothing)
SyncIos(p, h, myNodeIndex, nThr, threadIndex, syncConfig) ==
    LET myStage == p.stages[StageOfNode(p, myNodeIndex)]
        batchBytes == PipeBytes(h, p.nNodes, syncConfig.pipe)
        ios == CASE syncConfig.syncType = "SYNC_WITH_ROOT" ->
                      syncWithRoot(myStage, myNodeIndex, batchBytes, nThr, threadIndex)
                 [] syncConfig.syncType = "SYNC_NODE_SLICES" ->
                      syncNodeSlices(FALSE, p, myStage, myNodeIndex, batchBytes, nThr, threadIndex)
                 [] syncConfig.syncType = "SYNC_NODE_SLICES_EXCEPT_ROOT" ->
                      syncNodeSlices(TRUE, p, NoPlan, myNodeIndex, batchBytes, nThr, threadIndex)
                 [] syncConfig.syncType = "SYNC_PP_SEND" ->
                      syncPpSend(p, myStage, myNodeIndex, batchBytes, threadIndex)
                 [] syncConfig.syncType = "SYNC_PP_RECV" ->
                      syncPpRecv(p, myStage, myNodeIndex, batchBytes, threadIndex)
    IN [writes |-> NonEmptyIos(ios.writes), reads |-> NonEmptyIos(ios.reads)]

\* the node config of node n, each sync with the ios every thread has in it
\* (they depend on the plan, the node and the thread count only)
NodeConfigOf(p, h, n, nThr) ==
    LET segments == buildLlmNodeInternal(p, n)
    IN [g \in 1..Len(segments) |->
          [segments[g] EXCEPT !.syncs =
              [si \in 1..Len(segments[g].syncs) |->
                  [pipe |-> segments[g].syncs[si].pipe,
                   syncType |-> segments[g].syncs[si].syncType,
                   ios |-> [t \in 0..(nThr - 1) |-> SyncIos(p, h, n, nThr, t, segments[g].syncs[si])]]]]]

(***************************************************************************)
(* The byte streams.  A chunk is what one write put on the connection:     *)
(* its bytes, what they hold, the sync and the forward they were written   *)
(* in, and whether an earlier read has taken a part of it.                 *)
(***************************************************************************)
Chunk(len, val, syncType, f) ==
    [len |-> len, val |-> val, sync |-> syncType, f |-> f, whole |-> TRUE]

Avail(q) == SumSeq([i \in 1..Len(q) |-> q[i].len])

\* the stream after a read of k bytes
RECURSIVE Drop(_, _)
Drop(q, k) ==
    IF k = 0 THEN q
    ELSE IF q[1].len <= k THEN Drop(Tail(q), k - q[1].len)
    ELSE <<[q[1] EXCEPT !.len = @ - k, !.whole = FALSE]>> \o Tail(q)

\* what a read of k bytes finds
Taken(q, k) == IF q[1].len = k /\ q[1].whole THEN q[1].val ELSE Mixed

(***************************************************************************)
(* Positions of the threads inside sync(segmentIndex, nThreads, t).        *)
(***************************************************************************)
SyncsOf(n, g) == nodeConfig[n][g].syncs

\* the ios of thread t in sync si of segment g, as worked out at Boot
ThreadIos(n, t, g, si) == SyncsOf(n, g)[si].ios[t]

AtEnd == [si |-> 0, ph |-> "end"]

\* the first sync from si on in which thread t has an io (0: none); the
\* syncs in which it has none return at once
FirstLive(n, t, g, si) ==
    LET live == { k \in si..Len(SyncsOf(n, g)) :
                    Len(ThreadIos(n, t, g, k).writes) > 0 \/ Len(ThreadIos(n, t, g, k).reads) > 0 }
    IN IF live = {} THEN 0 ELSE CHOOSE k \in live : \A j \in live : k <= j

\* the rows of node n: X, and its slices of ZQ and LG by owner
HeldBy(n) == [x |-> xv[n], zq |-> zqv[n], lg |-> lgv[n]]

\* what the rows of a node have in a slot of a pipe
HeldIn(held, pipe, slot) ==
    CASE pipe = "X" -> held.x
      [] pipe = "ZQ" -> held.zq[slot]
      [] pipe = "LG" -> held.lg[slot]

\* the ops of segment g of node n in forward f write their output pipe
AfterOps(n, f, g, held) ==
    LET out == Val(n, f, g)
    IN CASE nodeConfig[n][g].writes = "X" -> [held EXCEPT !.x = out]
         [] nodeConfig[n][g].writes = "ZQ" -> [held EXCEPT !.zq[n] = out]
         [] nodeConfig[n][g].writes = "LG" -> [held EXCEPT !.lg[n] = out]
         [] OTHER -> held

\* writeMany: the ios i.. go out on their sockets
RECURSIVE Emit(_, _, _, _, _, _, _, _)
Emit(ch, n, f, syncConfig, writes, held, torn, i) ==
    IF i > Len(writes) THEN ch
    ELSE Emit([ch EXCEPT ![<<n, PeerOf(n, writes[i].sock)>>] =
                   Append(@, Chunk(writes[i].len,
                                   IF torn THEN Mixed ELSE HeldIn(held, syncConfig.pipe, writes[i].slot),
                                   syncConfig.syncType, f))],
              n, f, syncConfig, writes, held, torn, i + 1)

\* the nodes at the far end of the sockets of the ios
Reached(n, writes) == { PeerOf(n, writes[i].sock) : i \in 1..Len(writes) }

\* thread t is about to send the row of X in sync k while another thread
\* of the node, which is at sync from[u], still has to receive into it
Racing(n, t, g, k, from) ==
    /\ SyncsOf(n, g)[k].pipe = "X"
    /\ \E u \in Threads \ {t} :
          \E j \in from[u]..Len(SyncsOf(n, g)) :
             /\ SyncsOf(n, g)[j].pipe = "X"
             /\ Len(ThreadIos(n, u, g, j).reads) > 0

\* the state of node n in the course of a step: its segment, the positions
\* of its threads, its rows, the sockets, the nodes its writes reached
Acc(g, pos, held, ch, reached) ==
    [g |-> g, pos |-> pos, held |-> held, ch |-> ch, reached |-> reached]

\* thread t of node n goes through the syncs of segment g from sync si on,
\* until it has to wait: for bytes to read, or (its writeMany being in a
\* race with a read of another thread) for its turn.  A writeMany that no
\* other thread can interfere with is done on arrival.
RECURSIVE Pass(_, _, _, _, _, _, _)
Pass(n, t, f, g, si, from, acc) ==
    LET k == FirstLive(n, t, g, si)
    IN IF k = 0 THEN [acc EXCEPT !.pos[t] = AtEnd]
       ELSE LET ios == ThreadIos(n, t, g, k)
                written == [acc EXCEPT !.ch = Emit(@, n, f, SyncsOf(n, g)[k], ios.writes, acc.held, FALSE, 1),
                                       !.reached = @ \cup Reached(n, ios.writes)]
            IN IF Len(ios.writes) = 0 THEN [acc EXCEPT !.pos[t] = [si |-> k, ph |-> "recv"]]
               ELSE IF Racing(n, t, g, k, from) THEN [acc EXCEPT !.pos[t] = [si |-> k, ph |-> "send"]]
               ELSE IF Len(ios.reads) > 0 THEN [written EXCEPT !.pos[t] = [si |-> k, ph |-> "recv"]]
               ELSE Pass(n, t, f, g, k + 1, from, written)

\* the threads t.. enter sync(g, nThreads, t)
RECURSIVE ArriveFrom(_, _, _, _, _)
ArriveFrom(n, f, g, t, acc) ==
    IF t >= nThreads THEN acc
    ELSE ArriveFrom(n, f, g, t + 1, Pass(n, t, f, g, 1, [u \in Threads |-> 1], acc))

\* the executor: the ops of segment g run on all threads, the threads
\* rendezvous and enter sync(g, nThreads, t); when every thread has returned
\* from it they rendezvous again and go on with the next segment, until the
\* last one is done
RECURSIVE RunFrom(_, _, _, _)
RECURSIVE After(_, _, _, _)
RunFrom(n, f, g, acc) ==
    IF g > Len(nodeConfig[n]) THEN [acc EXCEPT !.g = g]
    ELSE After(n, f, g, ArriveFrom(n, f, g, 0, [acc EXCEPT !.g = g, !.held = AfterOps(n, f, g, @)]))

After(n, f, g, acc) ==
    IF \A t \in Threads : acc.pos[t].ph = "end"
    THEN RunFrom(n, f, g + 1, [acc EXCEPT !.reached = {}])
    ELSE acc

\* where the other threads of node n are
From(n) ==
    [u \in Threads |-> IF thr[n][u].ph = "end" THEN Len(SyncsOf(n, segmentIndex[n])) + 1 ELSE thr[n][u].si]

\* a control packet
Packet(position, nBatch, flags) == [position |-> position, batchSize |-> nBatch, flags |-> flags]

\* a slip in the reply rule: the worker's own --benchmark decides
RepliesPerf_OwnFlag(packet, workerBenchmark) == workerBenchmark

\* the worker loop after executor.forward(): the perf packet goes to the root
\* when the control packet of the forward asks for it
RepliesPerf(packet, workerBenchmark) == packet.flags % 2 = LLM_CTRL_PROFILE

\* LlmPerfPacket p of node n (the times are left out)
PerfOf(n, packet) == [position |-> packet.position, batchSize |-> packet.batchSize, nodeIndex |-> n]

\* what follows executor.forward() on node n: the root goes on to read the
\* perf packets when it profiles, a worker writes its perf packet to
\* ROOT_SOCKET_INDEX when the control packet asks for it
AfterForward(n, ch, packet) ==
    IF n # 0 /\ RepliesPerf(packet, benchmark.worker)
    THEN [ch EXCEPT ![<<n, 0>>] = Append(@, Chunk(PerfPacketBytes, PerfOf(n, packet), "PERF", packet.position))]
    ELSE ch

\* the step of node n is done
Apply(n, acc, packet) ==
    /\ segmentIndex' = [segmentIndex EXCEPT ![n] = acc.g]
    /\ npc' = [npc EXCEPT ![n] =
                 IF acc.g <= Len(nodeConfig[n]) THEN "sync"
                 ELSE IF n = 0 /\ benchmark.root THEN "perf"
                 ELSE "idle"]
    /\ thr' = [thr EXCEPT ![n] = acc.pos]
    /\ xv' = [xv EXCEPT ![n] = acc.held.x]
    /\ zqv' = [zqv EXCEPT ![n] = acc.held.zq]
    /\ lgv' = [lgv EXCEPT ![n] = acc.held.lg]
    /\ sent' = [sent EXCEPT ![n] = acc.reached]
    /\ chan' = IF acc.g > Len(nodeConfig[n]) THEN AfterForward(n, acc.ch, packet) ELSE acc.ch

(***************************************************************************)
(* The run.                                                                *)
(***************************************************************************)
InitNet ==
    /\ pc = "parsed"
    /\ ratiosStr = <<>> /\ nNodesArg = 0
    /\ stageDefs \in NetStageDefs
    /\ hdr = [NetHeader EXCEPT !.nLayers = Len(stageDefs)]
    /\ plan = NoPlan
    /\ sourceSize = NoSize /\ nodeIndex = 0 /\ cpuSlice = NoSlice /\ netSlice = NoSlice
    /\ nThreads \in 1..MaxThreads
    /\ nodeConfig = <<>> /\ npc = <<>> /\ fwd = <<>> /\ segmentIndex = <<>> /\ thr = <<>>
    /\ chan = <<>> /\ xv = <<>> /\ zqv = <<>> /\ lgv = <<>> /\ sent = <<>>
    /\ benchmark \in [root : BOOLEAN, worker : BOOLEAN]
    /\ controlPacket = <<>> /\ positionPipe = <<>> /\ batchSize = <<>> /\ lastPerf = <<>>
    /\ NoWorker
    /\ NoLoad
    /\ NoBoot
    /\ NoConfig
    /\ NoConnect
    /\ NoTryRead
    /\ NoExchange

\* runInferenceApp / runWorkerApp after the plan: the net and node configs
\* are built, the sockets are connected, the executors are created
Boot ==
    /\ pc = "planned"
    /\ pc' = "running"
    /\ nodeConfig' = [n \in Nodes |-> NodeConfigOf(plan, hdr, n, nThreads)]
    /\ npc' = [n \in Nodes |-> "idle"]
    /\ fwd' = [n \in Nodes |-> 0]
    /\ segmentIndex' = [n \in Nodes |-> 0]
    /\ thr' = [n \in Nodes |-> [t \in Threads |-> AtEnd]]
    /\ chan' = [c \in { <<a, b>> : a \in Nodes, b \in Nodes } \ { <<a, a>> : a \in Nodes } |-> <<>>]
    /\ xv' = [n \in Nodes |-> Uninit]
    /\ zqv' = [n \in Nodes |-> [o \in Nodes |-> Uninit]]
    /\ lgv' = [n \in Nodes |-> [o \in Nodes |-> Uninit]]
    /\ sent' = [n \in Nodes |-> {}]
    /\ controlPacket' = [n \in Nodes |->
                           Packet(-1, -1, IF n = 0 /\ benchmark.root THEN LLM_CTRL_PROFILE ELSE 0)]
    /\ positionPipe' = [n \in Nodes |-> -1]
    /\ batchSize' = [n \in Nodes |-> -1]
    /\ lastPerf' = <<>>
    /\ UNCHANGED <<exchVars, tryVars, connectVars, configVars, bootVars, loadVars, workerVars, ratiosStr, nNodesArg, hdr, stageDefs, plan, sliceVars, nThreads, benchmark>>

\* dllama.cpp inference(): the k-th forward from position pos on.  The
\* prompt goes in batches of at most nBatches tokens, its last token and
\* every predicted one in a batch of one.
RECURSIVE ForwardFrom(_, _)
ForwardFrom(pos, k) ==
    LET remainingTokens == NInputTokens - 1 - pos
        nBatch == IF remainingTokens <= 0 THEN 1 ELSE Min(remainingTokens, NBatches)
    IN IF k <= 1 THEN [position |-> pos, batchSize |-> nBatch]
       ELSE ForwardFrom(pos + nBatch, k - 1)

\* a slip in writeAll: only the first socket is written
ControlTo_FirstOnly(ch, packet, f, b) ==
    IF <<0, b>> \notin DOMAIN ch THEN ch
    ELSE [ch EXCEPT ![<<0, b>>] = Append(@, Chunk(ControlPacketBytes, packet, "CONTROL", f))]

\* writeAll of a control packet to the sockets b..
RECURSIVE ControlTo(_, _, _, _)
ControlTo(ch, packet, f, b) ==
    IF <<0, b>> \notin DOMAIN ch THEN ch
    ELSE ControlTo([ch EXCEPT ![<<0, b>>] = Append(@, Chunk(ControlPacketBytes, packet, "CONTROL", f))],
                   packet, f, b + 1)

\* setBatchSize, setPosition, then RootLlmInference::forward:
\* writeAll(&controlPacket), executor->forward()
RootForward ==
    /\ pc = "running"
    /\ npc[0] = "idle"
    /\ fwd[0] < MaxForwards
    /\ LET next == ForwardFrom(0, fwd[0] + 1)
           packet == Packet(next.position, next.batchSize, controlPacket[0].flags)
       IN /\ controlPacket' = [controlPacket EXCEPT ![0] = packet]
          /\ positionPipe' = [positionPipe EXCEPT ![0] = next.position]
          /\ batchSize' = [batchSize EXCEPT ![0] = next.batchSize]
          /\ fwd' = [fwd EXCEPT ![0] = @ + 1]
          /\ Apply(0, RunFrom(0, fwd[0] + 1, 1,
                              Acc(0, thr[0], HeldBy(0), ControlTo(chan, packet, fwd[0] + 1, 1), {})),
                   packet)
    /\ UNCHANGED <<exchVars, tryVars, connectVars, configVars, bootVars, loadVars, workerVars, planVars, sliceVars, nThreads, nodeConfig, benchmark, lastPerf>>

\* the packets the root has still to read from a worker socket: readMany
\* of one LlmPerfPacket from every socket
RECURSIVE PerfFrom(_, _)
PerfFrom(ch, b) ==
    IF <<b, 0>> \notin DOMAIN ch THEN <<>>
    ELSE <<Taken(ch[<<b, 0>>], PerfPacketBytes)>> \o PerfFrom(ch, b + 1)

RECURSIVE PerfDrained(_, _)
PerfDrained(ch, b) ==
    IF <<b, 0>> \notin DOMAIN ch THEN ch
    ELSE PerfDrained([ch EXCEPT ![<<b, 0>>] = Drop(@, PerfPacketBytes)], b + 1)

\* RootLlmInference::forward after executor->forward(), profiling: one perf
\* packet is read from every worker socket
RootReadPerf ==
    /\ pc = "running"
    /\ npc[0] = "perf"
    /\ \A c \in DOMAIN chan : c[2] = 0 => Avail(chan[c]) >= PerfPacketBytes
    /\ lastPerf' = PerfFrom(chan, 1)
    /\ chan' = PerfDrained(chan, 1)
    /\ npc' = [npc EXCEPT ![0] = "idle"]
    /\ UNCHANGED <<exchVars, tryVars, connectVars, configVars, bootVars, loadVars, workerVars, planVars, sliceVars, nThreads, nodeConfig, fwd, segmentIndex, thr, xv, zqv, lgv, sent,
                   benchmark, controlPacket, positionPipe, batchSize>>

\* RootLlmInference::finish: the stop packet, batchSize = 0 and position = 0
RootFinish ==
    /\ pc = "running"
    /\ npc[0] = "idle"
    /\ LET packet == Packet(0, 0, controlPacket[0].flags)
       IN /\ controlPacket' = [controlPacket EXCEPT ![0] = packet]
          /\ chan' = ControlTo(chan, packet, 0, 1)
    /\ npc' = [npc EXCEPT ![0] = "stopped"]
    /\ UNCHANGED <<exchVars, tryVars, connectVars, configVars, bootVars, loadVars, workerVars, planVars, sliceVars, nThreads, nodeConfig, fwd, segmentIndex, thr, xv, zqv, lgv, sent,
                   benchmark, positionPipe, batchSize, lastPerf>>

\* a slip in the stop test: no packet is taken as the stop packet
IsStop_Never(packet) == FALSE

\* tryReadControlPacket: the stop packet
IsStop(packet) == packet.batchSize = 0

\* what twelve bytes that are not a control packet may be read as
StrayPackets == { Packet(0, nBatch, flags) : nBatch \in 0..1, flags \in 0..1 }

\* the worker loop: WorkerLlmInference::tryReadControlPacket reads the
\* packet from ROOT_SOCKET_INDEX into controlPacket; a stop packet sets
\* isFinished and the loop is left, any other sets the position pipe and the
\* batch size, and executor.forward() follows.  Bytes that are not a control
\* packet are read as one all the same.
WorkerReadControl(n) ==
    /\ pc = "running"
    /\ n # 0
    /\ npc[n] = "idle"
    /\ Avail(chan[<<0, n>>]) >= ControlPacketBytes
    /\ LET q == chan[<<0, n>>]
           isPacket == q[1].sync = "CONTROL" /\ q[1].whole
           ch == [chan EXCEPT ![<<0, n>>] = Drop(q, ControlPacketBytes)]
       IN \E packet \in (IF isPacket THEN {q[1].val} ELSE StrayPackets) :
             /\ controlPacket' = [controlPacket EXCEPT ![n] = packet]
             /\ IF IsStop(packet)
                THEN /\ npc' = [npc EXCEPT ![n] = "stopped"]
                     /\ chan' = ch
                     /\ UNCHANGED <<fwd, segmentIndex, thr, xv, zqv, lgv, sent, positionPipe, batchSize>>
                ELSE /\ positionPipe' = [positionPipe EXCEPT ![n] = packet.position]
                     /\ batchSize' = [batchSize EXCEPT ![n] = packet.batchSize]
                     /\ fwd' = [fwd EXCEPT ![n] = @ + 1]
                     /\ Apply(n, RunFrom(n, fwd[n] + 1, 1, Acc(0, thr[n], HeldBy(n), ch, {})), packet)
    /\ UNCHANGED <<exchVars, tryVars, connectVars, configVars, bootVars, loadVars, workerVars, planVars, sliceVars, nThreads, nodeConfig, benchmark, lastPerf>>

\* another thread of the node is reading from a socket into the row of X
ReadInFlight(n, t, pipe) ==
    /\ pipe = "X"
    /\ \E u \in Threads \ {t} :
          /\ thr[n][u].ph = "recv"
          /\ SyncsOf(n, segmentIndex[n])[thr[n][u].si].pipe = "X"

\* writeMany of a thread whose row another thread of the node receives
\* into: the row goes out as it is at that time, or, read while it is being
\* written, torn
ThreadSend(n, t) ==
    /\ pc = "running"
    /\ npc[n] = "sync"
    /\ thr[n][t].ph = "send"
    /\ LET g == segmentIndex[n]
           si == thr[n][t].si
           syncConfig == SyncsOf(n, g)[si]
           ios == ThreadIos(n, t, g, si)
       IN \E torn \in (IF ReadInFlight(n, t, syncConfig.pipe) THEN BOOLEAN ELSE {FALSE}) :
             LET written == Acc(g, thr[n], HeldBy(n),
                                Emit(chan, n, fwd[n], syncConfig, ios.writes, HeldBy(n), torn, 1),
                                sent[n] \cup Reached(n, ios.writes))
             IN Apply(n, After(n, fwd[n], g,
                               IF Len(ios.reads) > 0
                               THEN [written EXCEPT !.pos[t] = [si |-> si, ph |-> "recv"]]
                               ELSE Pass(n, t, fwd[n], g, si + 1, From(n), written)),
                       controlPacket[n])
    /\ UNCHANGED <<exchVars, tryVars, connectVars, configVars, bootVars, loadVars, workerVars, planVars, sliceVars, nThreads, nodeConfig, fwd, loopVars>>

\* the bytes the ios of a readMany ask of the socket of io i, before io i
BytesBefore(reads, i) ==
    SumSeq([j \in 1..(i - 1) |-> IF reads[j].sock = reads[i].sock THEN reads[j].len ELSE 0])

BytesOn(reads, sock) ==
    SumSeq([j \in 1..Len(reads) |-> IF reads[j].sock = sock THEN reads[j].len ELSE 0])

\* what io i of a readMany is filled with
Got(n, reads, i, torn) ==
    IF torn /\ BytesOn(reads, reads[i].sock) > reads[i].len THEN Mixed
    ELSE Taken(Drop(chan[<<PeerOf(n, reads[i].sock), n>>], BytesBefore(reads, i)), reads[i].len)

\* the row of a sliced pipe after the ios from i on have been filled
RECURSIVE Filled(_, _, _, _, _)
Filled(row, n, reads, torn, i) ==
    IF i > Len(reads) THEN row
    ELSE Filled([row EXCEPT ![reads[i].slot] = Got(n, reads, i, torn)], n, reads, torn, i + 1)

\* the sockets after the ios from i on have taken their bytes
RECURSIVE Drained(_, _, _, _)
Drained(ch, n, reads, i) ==
    IF i > Len(reads) THEN ch
    ELSE Drained([ch EXCEPT ![<<PeerOf(n, reads[i].sock), n>>] = Drop(@, reads[i].len)], n, reads, i + 1)

\* readMany of the current sync of thread t returns: every io has been
\* filled from the bytes that arrived on its socket.  Two ios on one socket
\* take its bytes in their order, or, when the bytes arrive piecemeal, in
\* pieces.
ThreadRecv(n, t) ==
    /\ pc = "running"
    /\ npc[n] = "sync"
    /\ thr[n][t].ph = "recv"
    /\ LET g == segmentIndex[n]
           si == thr[n][t].si
           syncConfig == SyncsOf(n, g)[si]
           reads == ThreadIos(n, t, g, si).reads
           socks == { reads[i].sock : i \in 1..Len(reads) }
       IN /\ \A k \in socks : Avail(chan[<<PeerOf(n, k), n>>]) >= BytesOn(reads, k)
          /\ \E torn \in (IF Cardinality(socks) < Len(reads) THEN BOOLEAN ELSE {FALSE}) :
                LET held == [x |-> IF syncConfig.pipe = "X" THEN Got(n, reads, 1, torn) ELSE xv[n],
                             zq |-> IF syncConfig.pipe = "ZQ" THEN Filled(zqv[n], n, reads, torn, 1) ELSE zqv[n],
                             lg |-> IF syncConfig.pipe = "LG" THEN Filled(lgv[n], n, reads, torn, 1) ELSE lgv[n]]
                IN Apply(n, After(n, fwd[n], g,
                                  Pass(n, t, fwd[n], g, si + 1, From(n),
                                       Acc(g, thr[n], held, Drained(chan, n, reads, 1), sent[n]))),
                         controlPacket[n])
    /\ UNCHANGED <<exchVars, tryVars, connectVars, configVars, bootVars, loadVars, workerVars, planVars, sliceVars, nThreads, nodeConfig, fwd, loopVars>>

NextNet ==
    \/ CreatePlan
    \/ Boot
    \/ RootForward
    \/ RootReadPerf
    \/ RootFinish
    \/ \E n \in DOMAIN npc : WorkerReadControl(n)
    \/ \E n \in DOMAIN npc : \E t \in Threads : ThreadSend(n, t)
    \/ \E n \in DOMAIN npc : \E t \in Threads : ThreadRecv(n, t)

SpecNet == InitNet /\ [][NextNet]_vars

(***************************************************************************)
(* app.cpp: runWorkerApp, one worker process and the connection to its     *)
(* root.  The root is whatever writes control packets and may go away; the *)
(* forward is executor.forward() as a whole.                               *)
(***************************************************************************)
InitWorker ==
    /\ pc = "worker"
    /\ ratiosStr = <<>> /\ nNodesArg = 0 /\ hdr = NetHeader /\ stageDefs = <<>> /\ plan = NoPlan
    /\ sourceSize = NoSize /\ nodeIndex = 0 /\ cpuSlice = NoSlice /\ netSlice = NoSlice
    /\ NoNet
    /\ wpc = "serve" /\ wsock = "closed" /\ link = "none" /\ inbox = <<>>
    /\ netTurbo \in BOOLEAN
    /\ isFirstAttempt = FALSE /\ isTurboEnabled = FALSE /\ startTime = 0 /\ clock = 0
    /\ isFinished = FALSE /\ wpacket = Packet(-1, -1, 0)
    /\ nServed = 0 /\ wfwd = 0 /\ nPerf = 0 /\ wlast = "start"
    /\ NoLoad
    /\ NoBoot
    /\ NoConfig
    /\ NoConnect
    /\ NoTryRead
    /\ NoExchange

\* the end of an iteration of the outer loop: networkPtr goes out of scope,
\* ~NnNetwork closes the sockets, and the loop comes back to serve
BackToServe(how) ==
    /\ wpc' = "serve"
    /\ wsock' = "closed"
    /\ link' = "none"
    /\ inbox' = <<>>
    /\ wlast' = how

\* NnNetwork::serve: a root connects, the sockets are blocking ones
Serve ==
    /\ wpc = "serve"
    /\ nServed < MaxConnections
    /\ nServed' = nServed + 1
    /\ wpc' = "setup" /\ wsock' = "blocking" /\ link' = "up" /\ inbox' = <<>>
    /\ wlast' = "accepted"
    /\ UNCHANGED <<exchVars, tryVars, connectVars, configVars, bootVars, loadVars, planVars, sliceVars, netVars, netTurbo, isFirstAttempt, isTurboEnabled, startTime, clock,
                   isFinished, wpacket, wfwd, nPerf>>

\* readBootstrapPacket, the config reader, the plan, the executor, the
\* weights: all outside the try block, so a failed read ends the process
Setup ==
    /\ wpc = "setup"
    /\ IF link = "up"
       THEN /\ wpc' = "loop"
            /\ isFirstAttempt' = TRUE /\ isTurboEnabled' = FALSE /\ isFinished' = FALSE
            /\ wfwd' = 0 /\ nPerf' = 0
            /\ wlast' = "ready"
       ELSE /\ wpc' = "terminated"
            /\ wlast' = "uncaught"
            /\ UNCHANGED <<isFirstAttempt, isTurboEnabled, isFinished, wfwd, nPerf>>
    /\ UNCHANGED <<exchVars, tryVars, connectVars, configVars, bootVars, loadVars, planVars, sliceVars, netVars, wsock, link, inbox, netTurbo, startTime, clock, wpacket, nServed>>

\* the root writes a control packet: that of a forward, or the stop packet
RootWrites ==
    /\ wpc = "loop"
    /\ link = "up"
    /\ inbox = <<>>
    /\ \E nBatch \in 0..1, flags \in 0..1 :
          /\ nBatch = 1 => wfwd < MaxForwards
          /\ inbox' = <<Packet(wfwd, nBatch, flags)>>
    /\ UNCHANGED <<exchVars, tryVars, connectVars, configVars, bootVars, loadVars, planVars, sliceVars, netVars, wpc, wsock, link, netTurbo, isFirstAttempt, isTurboEnabled,
                   startTime, clock, isFinished, wpacket, nServed, wfwd, nPerf, wlast>>

\* the connection is lost: the peer closes it, or it breaks
LinkFails ==
    /\ wpc \in {"setup", "loop", "forward", "reply"}
    /\ link = "up"
    /\ link' \in {"closed", "error"}
    /\ UNCHANGED <<exchVars, tryVars, connectVars, configVars, bootVars, loadVars, planVars, sliceVars, netVars, wpc, wsock, inbox, netTurbo, isFirstAttempt, isTurboEnabled,
                   startTime, clock, isFinished, wpacket, nServed, wfwd, nPerf, wlast>>

\* processor time goes by
Tick ==
    /\ wpc \in {"loop", "forward", "reply"}
    /\ clock < MaxClock
    /\ clock' = clock + 1
    /\ UNCHANGED <<exchVars, tryVars, connectVars, configVars, bootVars, loadVars, planVars, sliceVars, netVars, wpc, wsock, link, inbox, netTurbo, isFirstAttempt,
                   isTurboEnabled, startTime, isFinished, wpacket, nServed, wfwd, nPerf, wlast>>

\* a slip in the fall-back test: no second is waited for
TurboFallsBack_AtOnce(turbo, first, elapsed) == turbo /\ ~first

\* the worker loop after a read of the control packet that gave nothing
TurboFallsBack(turbo, first, elapsed) == turbo /\ ~first /\ elapsed > CLOCKS_PER_SEC

\* send() to a lost connection (writeSocket, writeMany): the call returns an
\* error and NnTransferSocketException is thrown; with the peer gone and
\* no MSG_NOSIGNAL nor a SIGPIPE handler the signal ends the process; a
\* first write after the peer closed may still be taken by the kernel
WriteOutcomes == IF link = "up" THEN {"ok"}
                 ELSE IF link = "closed" THEN {"ok", "threw", "sigpipe"}
                 ELSE {"threw"}

\* recv() from a lost connection (tryReadSocket, readMany): 0 or an error,
\* NnTransferSocketException is thrown
ReadOutcomes == IF link = "up" THEN {"ok"} ELSE {"threw"}

\* an iteration of the inner loop as far as executor.forward()
TryReadControl ==
    /\ wpc = "loop"
    /\ LET start == IF isFirstAttempt THEN clock ELSE startTime
       IN /\ startTime' = start
          /\ IF inbox # <<>>
             THEN \* tryReadControlPacket gave a packet
                  /\ wpacket' = inbox[1]
                  /\ IF IsStop(inbox[1])
                     THEN /\ isFinished' = TRUE
                          /\ BackToServe("stop")
                          /\ UNCHANGED <<isTurboEnabled, wfwd>>
                     ELSE /\ wpc' = "forward"
                          /\ inbox' = Tail(inbox)
                          /\ isTurboEnabled' = (isTurboEnabled \/ netTurbo)
                          /\ wsock' = IF netTurbo THEN "nonblocking" ELSE wsock
                          /\ wfwd' = wfwd + 1
                          /\ wlast' = "packet"
                          /\ UNCHANGED <<isFinished, link>>
                  /\ UNCHANGED isFirstAttempt
             ELSE IF link # "up"
             THEN \* recv gives 0 or an error: NnTransferSocketException, caught
                  /\ BackToServe("threw")
                  /\ UNCHANGED <<isFirstAttempt, isTurboEnabled, isFinished, wpacket, wfwd>>
             ELSE \* nothing to read: a blocking recv waits, a non-blocking one
                  \* gives up after its attempts
                  /\ wsock = "nonblocking"
                  /\ IF TurboFallsBack(isTurboEnabled, isFirstAttempt, clock - start)
                     THEN wsock' = "blocking" /\ isTurboEnabled' = FALSE
                     ELSE UNCHANGED <<wsock, isTurboEnabled>>
                  /\ isFirstAttempt' = FALSE
                  /\ wlast' = "nothing"
                  /\ UNCHANGED <<wpc, link, inbox, isFinished, wpacket, wfwd>>
    /\ UNCHANGED <<exchVars, tryVars, connectVars, configVars, bootVars, loadVars, planVars, sliceVars, netVars, netTurbo, clock, nServed, nPerf>>

\* executor.forward(): the syncs of the segments read from and write to the
\* sockets; a failed one ends the forward with an exception the loop catches
Forward ==
    /\ wpc = "forward"
    /\ \E how \in ReadOutcomes \cup WriteOutcomes :
          IF how = "ok" THEN /\ wpc' = "reply"
                             /\ wlast' = "forward"
                             /\ UNCHANGED <<wsock, link, inbox>>
          ELSE IF how = "threw" THEN BackToServe("threw")
          ELSE /\ wpc' = "terminated"
               /\ wlast' = "sigpipe"
               /\ UNCHANGED <<wsock, link, inbox>>
    /\ UNCHANGED <<exchVars, tryVars, connectVars, configVars, bootVars, loadVars, planVars, sliceVars, netVars, netTurbo, isFirstAttempt, isTurboEnabled, startTime, clock,
                   isFinished, wpacket, nServed, wfwd, nPerf>>

\* the perf packet for the root, then isFirstAttempt = true
Reply ==
    /\ wpc = "reply"
    /\ \E how \in (IF RepliesPerf(wpacket, FALSE) THEN WriteOutcomes ELSE {"none"}) :
          IF how \in {"ok", "none"}
          THEN /\ wpc' = "loop"
               /\ nPerf' = nPerf + (IF how = "ok" THEN 1 ELSE 0)
               /\ isFirstAttempt' = TRUE
               /\ wlast' = "replied"
               /\ UNCHANGED <<wsock, link, inbox>>
          ELSE IF how = "threw"
          THEN /\ BackToServe("threw")
               /\ UNCHANGED <<nPerf, isFirstAttempt>>
          ELSE /\ wpc' = "terminated"
               /\ wlast' = "sigpipe"
               /\ UNCHANGED <<wsock, link, inbox, nPerf, isFirstAttempt>>
    /\ UNCHANGED <<exchVars, tryVars, connectVars, configVars, bootVars, loadVars, planVars, sliceVars, netVars, netTurbo, isTurboEnabled, startTime, clock, isFinished,
                   wpacket, nServed, wfwd>>

NextWorker ==
    \/ Serve
    \/ Setup
    \/ RootWrites
    \/ LinkFails
    \/ Tick
    \/ TryReadControl
    \/ Forward
    \/ Reply

SpecWorker == InitWorker /\ [][NextWorker]_vars

(***************************************************************************)
(* llm.cpp: loadLlmNetWeightUneven with NnLocalWeightLoader                *)
(* (nn-network-local.cpp): a node reads its weights from its own copy of   *)
(* the model file.                                                         *)
(***************************************************************************)
\* nBytes of size2D(floatType, y, x) and of size1D(floatType, x)
size2D(floatType, y, x) == getBytes(floatType, y * x)
size1D(floatType, x) == getBytes(floatType, x)

\* loadLlmHeader: headDim, qDim, kvDim
HeadDim(h) == h.dim \div h.nHeads
QDim(h) == HeadDim(h) * h.nHeads
KvDim(h) == HeadDim(h) * h.nKvHeads

\* the sizes buildLlmNetUneven keeps in the net
tokenEmbeddingSize(h) == size2D("F_32", h.vocabSize, h.dim)
rmsNormSize(h) == size1D("F_32", h.dim)
qkRmsNormSize(h) == size1D("F_32", HeadDim(h))
moeGateSize(h, x) == size2D("F_32", h.dim, x.nExperts)

FfDim(h, x) == IF x.archType = "QWEN3_MOE" THEN x.moeHiddenDim ELSE h.ffnDim

\* a slip in the layer total: the Q and K norms of Qwen3 are left out
calculateLayerBytes_NoQkNorms(h, x) ==
    size2D(x.weightType, h.dim, QDim(h))
    + size2D(x.weightType, h.dim, KvDim(h)) * 2
    + size2D(x.weightType, QDim(h), h.dim)
    + (IF x.nExperts > 0
       THEN moeGateSize(h, x)
            + x.nExperts * (size2D(x.weightType, h.dim, FfDim(h, x)) * 2
                            + size2D(x.weightType, FfDim(h, x), h.dim))
       ELSE size2D(x.weightType, h.dim, FfDim(h, x)) * 2 + size2D(x.weightType, FfDim(h, x), h.dim))
    + rmsNormSize(h) * 2

calculateLayerBytes(h, x) ==
    size2D(x.weightType, h.dim, QDim(h))
    + size2D(x.weightType, h.dim, KvDim(h)) * 2
    + size2D(x.weightType, QDim(h), h.dim)
    + (IF x.nExperts > 0
       THEN moeGateSize(h, x)
            + x.nExperts * (size2D(x.weightType, h.dim, FfDim(h, x)) * 2
                            + size2D(x.weightType, FfDim(h, x), h.dim))
       ELSE size2D(x.weightType, h.dim, FfDim(h, x)) * 2 + size2D(x.weightType, FfDim(h, x), h.dim))
    + (IF x.archType \in {"QWEN3", "QWEN3_MOE"} THEN qkRmsNormSize(h) * 2 ELSE 0)
    + rmsNormSize(h) * 2

\* nn-core.cpp, the slicers: size is that of the whole tensor, sliceSize
\* that of the rows or columns of the node
sliceRowMatmulAttUneven(type, globalInDim, headDim, split, globalOutDim, n) ==
    [size |-> size2D(type, globalInDim, globalOutDim),
     sliceSize |-> size2D(type, globalInDim, split.lengths[n] * headDim)]

sliceColMatmulAttUneven(type, globalInDimQ, globalOutDim, headDim, p, n) ==
    [size |-> size2D(type, globalInDimQ, globalOutDim),
     sliceSize |-> size2D(type, p.headSplit.lengths[n] * headDim, globalOutDim)]

sliceRowMatmulFfnUneven(type, globalInDim, globalFfnDim, p, n) ==
    [size |-> size2D(type, globalInDim, globalFfnDim),
     sliceSize |-> size2D(type, globalInDim, p.ffnSplit.lengths[n])]

sliceColMatmulFfnUneven(type, globalFfnDim, globalOutDim, p, n) ==
    [size |-> size2D(type, globalFfnDim, globalOutDim),
     sliceSize |-> size2D(type, p.ffnSplit.lengths[n], globalOutDim)]

sliceRowMatmulLogitsUneven(type, globalInDim, globalVocabSize, p, n) ==
    [size |-> size2D(type, globalInDim, globalVocabSize),
     sliceSize |-> size2D(type, globalInDim, p.vocabSplit.lengths[n])]

\* a slip in the row loader: the bytes of the slice are returned
loadRowMatmulSlicesUneven_SliceBytes(slice) == slice.sliceSize

\* NnLocalWeightLoader: what each load returns to the caller, which adds it
\* to the file pointer
loadRowMatmulSlicesUneven(slice) == slice.size
loadColMatmulSlicesUneven(slice) == slice.size
loadAll(nBytes) == nBytes
loadRoot(nBytes) == nBytes

\* the loads of one expert (or of the dense FFN): w1, w2, w3
FfnLoads(h, x, p, n) ==
    << [name |-> "block_matmul_w1",
        bytes |-> loadRowMatmulSlicesUneven(sliceRowMatmulFfnUneven(x.weightType, h.dim, FfDim(h, x), p, n))],
       [name |-> "block_matmul_w2",
        bytes |-> loadColMatmulSlicesUneven(sliceColMatmulFfnUneven(x.weightType, FfDim(h, x), h.dim, p, n))],
       [name |-> "block_matmul_w3",
        bytes |-> loadRowMatmulSlicesUneven(sliceRowMatmulFfnUneven(x.weightType, h.dim, FfDim(h, x), p, n))] >>

RECURSIVE ExpertLoads(_, _, _, _, _)
ExpertLoads(h, x, p, n, expertIndex) ==
    IF expertIndex >= x.nExperts THEN <<>>
    ELSE FfnLoads(h, x, p, n) \o ExpertLoads(h, x, p, n, expertIndex + 1)

\* the loads of a layer the node owns, in the order of the loader, each with
\* what it adds to the file pointer
LayerLoads(h, x, p, n) ==
    << [name |-> "block_matmul_q",
        bytes |-> loadRowMatmulSlicesUneven(
                     sliceRowMatmulAttUneven(x.weightType, h.dim, HeadDim(h), p.headSplit, QDim(h), n))],
       [name |-> "block_matmul_k",
        bytes |-> loadRowMatmulSlicesUneven(
                     sliceRowMatmulAttUneven(x.weightType, h.dim, HeadDim(h), p.kvHeadSplit, KvDim(h), n))],
       [name |-> "block_matmul_v",
        bytes |-> loadRowMatmulSlicesUneven(
                     sliceRowMatmulAttUneven(x.weightType, h.dim, HeadDim(h), p.kvHeadSplit, KvDim(h), n))],
       [name |-> "block_matmul_wo",
        bytes |-> loadColMatmulSlicesUneven(
                     sliceColMatmulAttUneven(x.weightType, QDim(h), h.dim, HeadDim(h), p, n))] >>
    \o (IF x.nExperts > 0
        THEN <<[name |-> "block_moe_gate", bytes |-> loadAll(moeGateSize(h, x))]>>
             \o ExpertLoads(h, x, p, n, 0)
        ELSE FfnLoads(h, x, p, n))
    \o (IF x.archType \in {"QWEN3", "QWEN3_MOE"}
        THEN << [name |-> "block_norm_q", bytes |-> loadAll(qkRmsNormSize(h))],
                [name |-> "block_norm_k", bytes |-> loadAll(qkRmsNormSize(h))] >>
        ELSE <<>>)
    \o << [name |-> "block_norm_0", bytes |-> loadAll(rmsNormSize(h))],
          [name |-> "block_norm_1", bytes |-> loadAll(rmsNormSize(h))] >>

finalBlockBytes(h, x) == rmsNormSize(h) + size2D(x.weightType, h.dim, h.vocabSize)

\* getStageForNode and the layer range of the node
MyStage == plan.stages[StageOfNode(plan, loaderNodeIndex)]
isMyLayer == loadLayerIndex >= MyStage.startLayer /\ loadLayerIndex < MyStage.endLayer
isFirstStage == MyStage.stageIndex = 0
isLastStage == MyStage.stageIndex = plan.nStages - 1

\* the model files the loader is run on
LoadHeader == [nHeads |-> 8, nKvHeads |-> 4, vocabSize |-> 160, ffnDim |-> 192, dim |-> 128, nLayers |-> 1]
LoadExtras ==
    { x \in [archType : {"LLAMA", "QWEN3", "QWEN3_MOE"}, nExperts : {0, 2}, moeHiddenDim : {0, 64},
             weightType : {"F_32", "F_16"}] :
        (x.archType = "QWEN3_MOE") = (x.moeHiddenDim # 0) }

\* equally weighted nodes cut into stages, stage k with k layers
LoadStageDefs ==
    UNION { { MakeDefs([i \in 1..n |-> 1], C) : C \in SUBSET (1..(n - 1)) } : n \in 1..MaxNodes }

InitLoad ==
    /\ pc = "planned"
    /\ ratiosStr = <<>> /\ nNodesArg = 0
    /\ stageDefs \in LoadStageDefs
    /\ hdr = [LoadHeader EXCEPT !.nLayers = LayerOffsetOf(stageDefs, Len(stageDefs) + 1)]
    /\ plan = createPartitionPlan(stageDefs, hdr)
    /\ sourceSize = NoSize /\ nodeIndex = 0 /\ cpuSlice = NoSlice /\ netSlice = NoSlice
    /\ NoNet
    /\ NoWorker
    /\ lpc = "embedding"
    /\ lh \in LoadExtras
    /\ loaderNodeIndex \in 0..(plan.nNodes - 1)
    /\ filePtr = 0 /\ loadLayerIndex = 0 /\ opIndex = 0 /\ layerStartPtr = 0
    /\ executorWeights = {}
    /\ NoBoot
    /\ NoConfig
    /\ NoConnect
    /\ NoTryRead
    /\ NoExchange

\* the embedding: loaded by the nodes of the first stage, passed by the others
LoadEmbedding ==
    /\ lpc = "embedding"
    /\ filePtr' = filePtr + (IF isFirstStage THEN loadRoot(tokenEmbeddingSize(hdr)) ELSE tokenEmbeddingSize(hdr))
    /\ executorWeights' = executorWeights \cup (IF isFirstStage THEN {<<"embedding", 0>>} ELSE {})
    /\ lpc' = "layer"
    /\ UNCHANGED <<exchVars, tryVars, connectVars, configVars, bootVars, planVars, sliceVars, netVars, workerVars, lh, loaderNodeIndex, loadLayerIndex, opIndex, layerStartPtr>>

\* the head of the loop over the layers, a layer of the node
EnterLayer ==
    /\ lpc = "layer"
    /\ loadLayerIndex < hdr.nLayers
    /\ isMyLayer
    /\ layerStartPtr' = filePtr
    /\ opIndex' = 1
    /\ lpc' = "ops"
    /\ UNCHANGED <<exchVars, tryVars, connectVars, configVars, bootVars, planVars, sliceVars, netVars, workerVars, lh, loaderNodeIndex, filePtr, loadLayerIndex, executorWeights>>

\* a layer of another stage: b += layerBytes
SkipLayer ==
    /\ lpc = "layer"
    /\ loadLayerIndex < hdr.nLayers
    /\ ~isMyLayer
    /\ filePtr' = filePtr + calculateLayerBytes(hdr, lh)
    /\ loadLayerIndex' = loadLayerIndex + 1
    /\ UNCHANGED <<exchVars, tryVars, connectVars, configVars, bootVars, planVars, sliceVars, netVars, workerVars, lpc, lh, loaderNodeIndex, opIndex, layerStartPtr, executorWeights>>

\* b += loader->load...(..., b)
LoadOp ==
    /\ lpc = "ops"
    /\ opIndex <= Len(LayerLoads(hdr, lh, plan, loaderNodeIndex))
    /\ filePtr' = filePtr + LayerLoads(hdr, lh, plan, loaderNodeIndex)[opIndex].bytes
    /\ executorWeights' = executorWeights
                           \cup {<<LayerLoads(hdr, lh, plan, loaderNodeIndex)[opIndex].name, loadLayerIndex>>}
    /\ opIndex' = opIndex + 1
    /\ UNCHANGED <<exchVars, tryVars, connectVars, configVars, bootVars, planVars, sliceVars, netVars, workerVars, lpc, lh, loaderNodeIndex, loadLayerIndex, layerStartPtr>>

\* actualBytes against layerBytes at the end of a layer of the node
VerifyLayer ==
    /\ lpc = "ops"
    /\ opIndex > Len(LayerLoads(hdr, lh, plan, loaderNodeIndex))
    /\ IF filePtr - layerStartPtr # calculateLayerBytes(hdr, lh)
       THEN lpc' = "failed" /\ UNCHANGED loadLayerIndex
       ELSE lpc' = "layer" /\ loadLayerIndex' = loadLayerIndex + 1
    /\ UNCHANGED <<exchVars, tryVars, connectVars, configVars, bootVars, planVars, sliceVars, netVars, workerVars, lh, loaderNodeIndex, filePtr, opIndex, layerStartPtr, executorWeights>>

\* the final norm and the logits matmul, loaded by the last stage
LoadFinal ==
    /\ lpc = "layer"
    /\ loadLayerIndex >= hdr.nLayers
    /\ LET loaded == loadAll(rmsNormSize(hdr))
                     + loadRowMatmulSlicesUneven(
                          sliceRowMatmulLogitsUneven(lh.weightType, hdr.dim, hdr.vocabSize, plan, loaderNodeIndex))
       IN IF isLastStage
          THEN /\ filePtr' = filePtr + loaded
               /\ lpc' = IF loaded # finalBlockBytes(hdr, lh) THEN "failed" ELSE "done"
          ELSE /\ filePtr' = filePtr + finalBlockBytes(hdr, lh)
               /\ lpc' = "done"
    /\ executorWeights' = executorWeights
                           \cup (IF isLastStage THEN {<<"final_norm", 0>>, <<"final_matmul_logits", 0>>} ELSE {})
    /\ UNCHANGED <<exchVars, tryVars, connectVars, configVars, bootVars, planVars, sliceVars, netVars, workerVars, lh, loaderNodeIndex, loadLayerIndex, opIndex, layerStartPtr>>

NextLoad ==
    \/ LoadEmbedding
    \/ EnterLayer
    \/ SkipLayer
    \/ LoadOp
    \/ VerifyLayer
    \/ LoadFinal

SpecLoad == InitLoad /\ [][NextLoad]_vars

(***************************************************************************)
(* app.cpp: the bootstrap packet.  After NnNetwork::connect the root       *)
(* writes one LlmBootstrapPacket and the strings it announces on the       *)
(* socket of a worker; the worker reads them before the configs.  The      *)
(* connection is a FIFO stream of bytes; a string is the sequence of its   *)
(* bytes, none of them zero, and NullPtr stands for a null char pointer.   *)
(***************************************************************************)
NullPtr == <<0>>
LLM_BOOTSTRAP_MAGIC == 1296190532
LLM_BOOTSTRAP_VERSION == 2
LLM_BOOTSTRAP_HAS_MODEL_PATH == 1
LLM_BOOTSTRAP_HAS_RATIOS == 2
\* the largest NnUint the runs use (the fields stay below 2^31)
MaxUint == (64 * 256 * 256 * 256 - 1) * 2 + 1

\* the four bytes of an NnUint in the memory of the host (little-endian)
UintBytes(u) == <<u % 256, (u \div 256) % 256, (u \div 65536) % 256, (u \div 16777216) % 256>>
UintOf(q, at) == q[at] + 256 * q[at + 1] + 65536 * q[at + 2] + 16777216 * q[at + 3]

\* the bytes of a struct of NnUint fields, in the order of their declaration
RECURSIVE StructBytes(_)
StructBytes(fields) == IF fields = <<>> THEN <<>> ELSE UintBytes(Head(fields)) \o StructBytes(Tail(fields))

BootstrapPacketBytes == 32

\* std::strlen: the bytes before the first zero byte
strlen(q) == IF \E i \in 1..Len(q) : q[i] = 0
             THEN (CHOOSE i \in 1..Len(q) : q[i] = 0 /\ \A j \in 1..(i - 1) : q[j] # 0) - 1
             ELSE Len(q)

\* a C string in memory: its bytes and the terminator
CStr(str) == Append(str, 0)

\* the LlmBootstrapPacket filled in by writeBootstrapPacket
BootstrapPacketOf(args) ==
    [magic |-> LLM_BOOTSTRAP_MAGIC,
     version |-> LLM_BOOTSTRAP_VERSION,
     flags |-> (IF args.modelPath # NullPtr THEN LLM_BOOTSTRAP_HAS_MODEL_PATH ELSE 0)
               + (IF args.ratiosStr # NullPtr THEN LLM_BOOTSTRAP_HAS_RATIOS ELSE 0),
     benchmarkEnabled |-> IF args.benchmark THEN 1 ELSE 0,
     maxSeqLen |-> args.maxSeqLen,
     syncType |-> args.syncType,
     modelPathLen |-> IF args.modelPath # NullPtr THEN strlen(CStr(args.modelPath)) + 1 ELSE 0,
     ratiosLen |-> IF args.ratiosStr # NullPtr THEN strlen(CStr(args.ratiosStr)) + 1 ELSE 0]

PacketBytes(p) ==
    StructBytes(<<p.magic, p.version, p.flags, p.benchmarkEnabled, p.maxSeqLen, p.syncType,
                  p.modelPathLen, p.ratiosLen>>)

\* a slip in the writer: the two strings written in the other order
writeBootstrapPacket_RatiosFirst(args) ==
    LET p == BootstrapPacketOf(args)
    IN PacketBytes(p)
       \o (IF p.ratiosLen > 0 THEN SubSeq(CStr(args.ratiosStr), 1, p.ratiosLen) ELSE <<>>)
       \o (IF p.modelPathLen > 0 THEN SubSeq(CStr(args.modelPath), 1, p.modelPathLen) ELSE <<>>)

\* writeBootstrapPacket: the bytes of its up to three network->write calls
writeBootstrapPacket(args) ==
    LET p == BootstrapPacketOf(args)
    IN PacketBytes(p)
       \o (IF p.modelPathLen > 0 THEN SubSeq(CStr(args.modelPath), 1, p.modelPathLen) ELSE <<>>)
       \o (IF p.ratiosLen > 0 THEN SubSeq(CStr(args.ratiosStr), 1, p.ratiosLen) ELSE <<>>)

\* the packet at the head of the stream q
PacketAt(q) ==
    [magic |-> UintOf(q, 1), version |-> UintOf(q, 5), flags |-> UintOf(q, 9),
     benchmarkEnabled |-> UintOf(q, 13), maxSeqLen |-> UintOf(q, 17), syncType |-> UintOf(q, 21),
     modelPathLen |-> UintOf(q, 25), ratiosLen |-> UintOf(q, 29)]

HasFlag(flags, bit) == (flags \div bit) % 2 = 1

\* the bytes readBootstrapPacket takes off the stream after the packet
PathBytesRead(p) == IF HasFlag(p.flags, LLM_BOOTSTRAP_HAS_MODEL_PATH) THEN p.modelPathLen ELSE 0
RatiosBytesRead(p) == IF HasFlag(p.flags, LLM_BOOTSTRAP_HAS_RATIOS) THEN p.ratiosLen ELSE 0

\* std::string::assign(buf.data()): the bytes of buf up to its first zero
AssignCStr(buf) == SubSeq(buf, 1, strlen(buf))

\* readBootstrapPacket on the stream q, which holds all the bytes it reads
readBootstrapPacket(q) ==
    LET p == PacketAt(q)
        pathAt == BootstrapPacketBytes
        ratiosAt == pathAt + PathBytesRead(p)
    IN [threw |-> p.magic # LLM_BOOTSTRAP_MAGIC \/ p.version # LLM_BOOTSTRAP_VERSION,
        p |-> p,
        modelPath |-> AssignCStr(SubSeq(q, pathAt + 1, pathAt + PathBytesRead(p))),
        ratiosStr |-> AssignCStr(SubSeq(q, ratiosAt + 1, ratiosAt + RatiosBytesRead(p))),
        nRead |-> ratiosAt + RatiosBytesRead(p)]

\* the blocking reads of readBootstrapPacket can all complete on q
CanReadBootstrap(q) ==
    /\ Len(q) >= BootstrapPacketBytes
    /\ Len(q) >= BootstrapPacketBytes + PathBytesRead(PacketAt(q)) + RatiosBytesRead(PacketAt(q))

\* the arguments of the root process
BootPaths == {NullPtr, <<>>, <<109>>, <<109, 47, 113>>}
BootRatios == {NullPtr, <<>>, <<49>>, <<49, 58, 50>>}
BootArgs ==
    [benchmark : BOOLEAN, maxSeqLen : {0, 1, 4096, MaxUint}, syncType : {0, 1, 3},
     modelPath : BootPaths, ratiosStr : BootRatios]

NoPacket == [magic |-> 0]

InitBootstrap ==
    /\ bootPc = "connected"
    /\ bootArgs \in BootArgs
    /\ bootWire = <<>>
    /\ bootPacket = NoPacket /\ bootModelPath = <<>> /\ bootRatios = <<>>
    /\ pc = "bootstrap" /\ ratiosStr = <<>> /\ nNodesArg = 0 /\ hdr = NetHeader /\ stageDefs = <<>> /\ plan = NoPlan
    /\ sourceSize = NoSize /\ nodeIndex = 0 /\ cpuSlice = NoSlice /\ netSlice = NoSlice
    /\ NoNet
    /\ NoWorker
    /\ NoLoad
    /\ NoConfig
    /\ NoConnect
    /\ NoTryRead
    /\ NoExchange

\* runInferenceApp: writeBootstrapPacket(network, socketIndex, args)
WriteBootstrapPacket ==
    /\ bootPc = "connected"
    /\ bootWire' = bootWire \o writeBootstrapPacket(bootArgs)
    /\ bootPc' = "written"
    /\ UNCHANGED <<exchVars, tryVars, connectVars, configVars, planVars, sliceVars, netVars, workerVars, loadVars, bootArgs, bootPacket, bootModelPath, bootRatios>>

\* runWorkerApp: boot = readBootstrapPacket(network, bootModelPath, bootRatios)
ReadBootstrapPacket ==
    /\ bootPc = "written"
    /\ CanReadBootstrap(bootWire)
    /\ LET r == readBootstrapPacket(bootWire)
       IN /\ bootPc' = IF r.threw THEN "threw" ELSE "read"
          /\ bootPacket' = r.p
          /\ bootModelPath' = r.modelPath
          /\ bootRatios' = r.ratiosStr
          /\ bootWire' = SubSeq(bootWire, r.nRead + 1, Len(bootWire))
    /\ UNCHANGED <<exchVars, tryVars, connectVars, configVars, planVars, sliceVars, netVars, workerVars, loadVars, bootArgs>>

NextBootstrap == WriteBootstrapPacket \/ ReadBootstrapPacket

SpecBootstrap == InitBootstrap /\ [][NextBootstrap]_vars

(***************************************************************************)
(* nn-network.cpp: NnRootConfigWriter and NnWorkerConfigReader.  The root  *)
(* streams the net config and the node config of each worker over the      *)
(* worker's socket, field by field as raw memory; the worker rebuilds      *)
(* them.  A connection is a FIFO stream of bytes in each direction.  A     *)
(* char pointer is the array it points to, terminator included.            *)
(***************************************************************************)
ACK == 23571114

\* the numeric value of an NnFloatType
FloatTypeCode(floatType) ==
    CASE floatType = "F_UNK" -> -1 [] floatType = "F_32" -> 0 [] floatType = "F_16" -> 1

\* size0() and size3D() as NnSize3D structs
Size0 == [floatType |-> -1, z |-> 0, y |-> 0, x |-> 0, length |-> 0, nBytes |-> 0, nBytesXY |-> 0]
Size3DOf(floatType, z, y, x) ==
    [floatType |-> FloatTypeCode(floatType), z |-> z, y |-> y, x |-> x, length |-> z * y * x,
     nBytes |-> getBytes(floatType, z * y * x), nBytesXY |-> getBytes(floatType, y * x)]

\* the memory of a 32-bit int or enum (two's complement) and of an NnSize
IntOf(q, at) ==
    q[at] + 256 * q[at + 1] + 65536 * q[at + 2]
    + 16777216 * (IF q[at + 3] >= 128 THEN q[at + 3] - 256 ELSE q[at + 3])
SizeBytes(n) == UintBytes(n) \o <<0, 0, 0, 0>>
SizeOf(q, at) == UintOf(q, at)

Size3DBytes(size) ==
    UintBytes(size.floatType) \o UintBytes(size.z) \o UintBytes(size.y) \o UintBytes(size.x)
    \o SizeBytes(size.length) \o SizeBytes(size.nBytes) \o SizeBytes(size.nBytesXY)
Size3DAt(q, at) ==
    [floatType |-> IntOf(q, at), z |-> UintOf(q, at + 4), y |-> UintOf(q, at + 8), x |-> UintOf(q, at + 12),
     length |-> SizeOf(q, at + 16), nBytes |-> SizeOf(q, at + 24), nBytesXY |-> SizeOf(q, at + 32)]
Size3DLen == 40

PointerBytes(pointer) ==
    UintBytes(pointer.source) \o UintBytes(pointer.pointerIndex) \o UintBytes(pointer.type)
PointerAt(q, at) ==
    [source |-> UintOf(q, at), pointerIndex |-> UintOf(q, at + 4), type |-> UintOf(q, at + 8)]
PointerLen == 12

\* writeString / readString: the length with the terminator, then the array
writeString(str) == UintBytes(strlen(str) + 1) \o SubSeq(str, 1, strlen(str) + 1)
readString(q, at) == [val |-> SubSeq(q, at + 4, at + 3 + UintOf(q, at)), at |-> at + 4 + UintOf(q, at)]

\* the concatenation of the sequences of qs
RECURSIVE Flat(_)
Flat(qs) == IF qs = <<>> THEN <<>> ELSE Head(qs) \o Flat(Tail(qs))

\* writeNet / writeNode: one pipe or buffer, one sync, one op
NamedSizeBytes(c) == Size3DBytes(c.size) \o writeString(c.name)
SyncBytes(c) == UintBytes(c.pipeIndex) \o UintBytes(c.syncType)

\* a slip in the writer: the op index written before the op code
OpBytes_IndexFirst(c) ==
    UintBytes(c.index) \o UintBytes(c.code) \o Size3DBytes(c.weightSize) \o UintBytes(c.configSize)
    \o writeString(c.name) \o PointerBytes(c.input) \o PointerBytes(c.output)
    \o (IF c.configSize > 0 THEN SubSeq(c.config, 1, c.configSize) ELSE <<>>)

OpBytes(c) ==
    UintBytes(c.code) \o UintBytes(c.index) \o Size3DBytes(c.weightSize) \o UintBytes(c.configSize)
    \o writeString(c.name) \o PointerBytes(c.input) \o PointerBytes(c.output)
    \o (IF c.configSize > 0 THEN SubSeq(c.config, 1, c.configSize) ELSE <<>>)

SegmentBytes(c) ==
    UintBytes(c.nSyncs) \o UintBytes(c.nOps)
    \o Flat([i \in 1..c.nSyncs |-> SyncBytes(c.syncs[i])])
    \o Flat([i \in 1..c.nOps |-> OpBytes(c.ops[i])])

\* NnRootConfigWriter::writeNet: the bytes it writes, the ACK first
writeNet(config) ==
    UintBytes(ACK)
    \o UintBytes(config.nBatches) \o UintBytes(config.nNodes) \o UintBytes(config.nPipes)
    \o Flat([i \in 1..config.nPipes |-> NamedSizeBytes(config.pipes[i])])
    \o UintBytes(config.nPreSyncs)
    \o Flat([i \in 1..config.nPreSyncs |-> UintBytes(config.preSyncs[i].pipeIndex)])

\* NnRootConfigWriter::writeNode: the bytes it writes, the ACK first
writeNode(config) ==
    UintBytes(ACK)
    \o UintBytes(config.nodeIndex) \o UintBytes(config.nBuffers) \o UintBytes(config.nSegments)
    \o Flat([i \in 1..config.nBuffers |-> NamedSizeBytes(config.buffers[i])])
    \o Flat([i \in 1..config.nSegments |-> SegmentBytes(config.segments[i])])

\* the reader's loops: n items from position at on, [val, at] with the
\* items read and the position after them
RECURSIVE ReadNamedSizes(_, _, _)
ReadNamedSizes(q, at, n) ==
    IF n = 0 THEN [val |-> <<>>, at |-> at]
    ELSE LET name == readString(q, at + Size3DLen)
             rest == ReadNamedSizes(q, name.at, n - 1)
         IN [val |-> <<[name |-> name.val, size |-> Size3DAt(q, at)]>> \o rest.val, at |-> rest.at]

RECURSIVE ReadPreSyncs(_, _, _)
ReadPreSyncs(q, at, n) ==
    IF n = 0 THEN [val |-> <<>>, at |-> at]
    ELSE LET rest == ReadPreSyncs(q, at + 4, n - 1)
         IN [val |-> <<[pipeIndex |-> UintOf(q, at)]>> \o rest.val, at |-> rest.at]

RECURSIVE ReadSyncs(_, _, _)
ReadSyncs(q, at, n) ==
    IF n = 0 THEN [val |-> <<>>, at |-> at]
    ELSE LET rest == ReadSyncs(q, at + 8, n - 1)
         IN [val |-> <<[pipeIndex |-> UintOf(q, at), syncType |-> UintOf(q, at + 4)]>> \o rest.val,
             at |-> rest.at]

RECURSIVE ReadOps(_, _, _)
ReadOps(q, at, n) ==
    IF n = 0 THEN [val |-> <<>>, at |-> at]
    ELSE LET configSize == UintOf(q, at + 8 + Size3DLen)
             name == readString(q, at + 12 + Size3DLen)
             configAt == name.at + 2 * PointerLen
             rest == ReadOps(q, configAt + configSize, n - 1)
         IN [val |-> <<[code |-> UintOf(q, at),
                        name |-> name.val,
                        index |-> UintOf(q, at + 4),
                        input |-> PointerAt(q, name.at),
                        output |-> PointerAt(q, name.at + PointerLen),
                        weightSize |-> Size3DAt(q, at + 8),
                        config |-> SubSeq(q, configAt, configAt + configSize - 1),
                        configSize |-> configSize]>> \o rest.val,
             at |-> rest.at]

RECURSIVE ReadSegments(_, _, _)
ReadSegments(q, at, n) ==
    IF n = 0 THEN [val |-> <<>>, at |-> at]
    ELSE LET nSyncs == UintOf(q, at)
             nOps == UintOf(q, at + 4)
             syncs == ReadSyncs(q, at + 8, nSyncs)
             ops == ReadOps(q, syncs.at, nOps)
             rest == ReadSegments(q, ops.at, n - 1)
         IN [val |-> <<[nOps |-> nOps, ops |-> ops.val, nSyncs |-> nSyncs, syncs |-> syncs.val]>>
                     \o rest.val,
             at |-> rest.at]

\* NnWorkerConfigReader::readNet on the stream q: the config, whether the
\* ACK check threw, and the position after the last byte read
readNet(q) ==
    LET nPipes == UintOf(q, 13)
        pipes == ReadNamedSizes(q, 17, nPipes)
        nPreSyncs == UintOf(q, pipes.at)
        preSyncs == ReadPreSyncs(q, pipes.at + 4, nPreSyncs)
    IN [threw |-> UintOf(q, 1) # ACK,
        config |-> [nBatches |-> UintOf(q, 5), nNodes |-> UintOf(q, 9), nPipes |-> nPipes,
                    pipes |-> pipes.val, nPreSyncs |-> nPreSyncs, preSyncs |-> preSyncs.val],
        at |-> preSyncs.at]

\* NnWorkerConfigReader::readNode on the stream q
readNode(q) ==
    LET nBuffers == UintOf(q, 9)
        nSegments == UintOf(q, 13)
        buffers == ReadNamedSizes(q, 17, nBuffers)
        segments == ReadSegments(q, buffers.at, nSegments)
    IN [threw |-> UintOf(q, 1) # ACK,
        config |-> [nodeIndex |-> UintOf(q, 5), nBuffers |-> nBuffers, buffers |-> buffers.val,
                    nSegments |-> nSegments, segments |-> segments.val],
        at |-> segments.at]

\* the configs the root holds.  Names are char arrays with their terminator.
MaxConfigNodes == 3

NameX == <<120, 0>>
NameLogits == <<108, 103, 0>>
NameBuf == <<113, 95, 116, 109, 112, 0>>
NameOp == <<98, 108, 111, 99, 107, 95, 110, 111, 114, 109, 0>>
NameCast == <<99, 0>>

PointerConfigOf(source, pointerIndex, type) == [source |-> source, pointerIndex |-> pointerIndex, type |-> type]

ConfigNetOf(nBatches, nNodes, withPreSync) ==
    [nBatches |-> nBatches, nNodes |-> nNodes, nPipes |-> 2,
     pipes |-> << [name |-> NameX, size |-> Size3DOf("F_32", 1, nBatches, 64)],
                  [name |-> NameLogits, size |-> Size3DOf("F_16", 1, nBatches, 96 * nNodes)] >>,
     nPreSyncs |-> IF withPreSync THEN 1 ELSE 0,
     preSyncs |-> IF withPreSync THEN <<[pipeIndex |-> 1]>> ELSE <<>>]

\* an op with a config blob and one without (a null config pointer)
OpWithConfig(n) ==
    [code |-> 4, name |-> NameOp, index |-> n, input |-> PointerConfigOf(1, 0, 1),
     output |-> PointerConfigOf(1, 2, 1), weightSize |-> Size3DOf("F_32", 1, 1, 64),
     config |-> <<n, 0, 0, 0, 232, 3, 0, 0>>, configSize |-> 8]
OpWithoutConfig(n) ==
    [code |-> 11, name |-> NameCast, index |-> n, input |-> PointerConfigOf(1, 2, 1),
     output |-> PointerConfigOf(0, n, 2), weightSize |-> Size0, config |-> <<>>, configSize |-> 0]

SegmentOf(syncs, ops) == [nOps |-> Len(ops), ops |-> ops, nSyncs |-> Len(syncs), syncs |-> syncs]

\* the segment lists the runs use for node n
ConfigSegments(n) ==
    << <<>>,
      <<SegmentOf(<<>>, <<>>)>>,
      <<SegmentOf(<<[pipeIndex |-> 1, syncType |-> 1]>>, <<OpWithConfig(n), OpWithoutConfig(n)>>)>>,
      <<SegmentOf(<<[pipeIndex |-> 0, syncType |-> 4], [pipeIndex |-> 0, syncType |-> 0]>>, <<>>),
        SegmentOf(<<[pipeIndex |-> 1, syncType |-> 1]>>, <<OpWithoutConfig(n), OpWithConfig(n)>>),
        SegmentOf(<<>>, <<>>)>> >>

ConfigNodeOf(n, segments) ==
    [nodeIndex |-> n,
     nBuffers |-> Len(segments),
     buffers |-> [i \in 1..Len(segments) |-> [name |-> NameBuf, size |-> Size3DOf("F_32", 1, i, 32 * n)]],
     nSegments |-> Len(segments),
     segments |-> segments]

ConfigWorkers == 1..(rootNetConfig.nNodes - 1)

InitConfig ==
    /\ \E nBatches \in 1..2, nNodes \in 2..MaxConfigNodes, withPreSync \in BOOLEAN :
          rootNetConfig = ConfigNetOf(nBatches, nNodes, withPreSync)
    /\ \E k \in 1..4 :
          rootNodeConfigs = [n \in 1..(rootNetConfig.nNodes - 1) |->
                               ConfigNodeOf(n, ConfigSegments(n)[((k + n) % 4) + 1])]
    /\ rootConfigPc = [at |-> "net", nodeIndex |-> 1]
    /\ downStream = [n \in 1..(rootNetConfig.nNodes - 1) |-> <<>>]
    /\ upStream = [n \in 1..(rootNetConfig.nNodes - 1) |-> <<>>]
    /\ readerPc = [n \in 1..(rootNetConfig.nNodes - 1) |-> "net"]
    /\ readNetConfig = [n \in 1..(rootNetConfig.nNodes - 1) |-> <<>>]
    /\ readNodeConfig = [n \in 1..(rootNetConfig.nNodes - 1) |-> <<>>]
    /\ nWritten = [n \in 1..(rootNetConfig.nNodes - 1) |-> 0]
    /\ nConsumed = [n \in 1..(rootNetConfig.nNodes - 1) |-> 0]
    /\ pc = "config" /\ ratiosStr = <<>> /\ nNodesArg = 0 /\ hdr = NetHeader /\ stageDefs = <<>> /\ plan = NoPlan
    /\ sourceSize = NoSize /\ nodeIndex = 0 /\ cpuSlice = NoSlice /\ netSlice = NoSlice
    /\ NoNet
    /\ NoWorker
    /\ NoLoad
    /\ NoBoot
    /\ NoConnect
    /\ NoTryRead
    /\ NoExchange

\* writeToWorkers: writeNet(socketIndex, netConfig) up to its readAck
RootWriteNet ==
    /\ rootConfigPc.at = "net"
    /\ LET n == rootConfigPc.nodeIndex
       IN /\ downStream' = [downStream EXCEPT ![n] = @ \o writeNet(rootNetConfig)]
          /\ nWritten' = [nWritten EXCEPT ![n] = @ + Len(writeNet(rootNetConfig))]
    /\ rootConfigPc' = [rootConfigPc EXCEPT !.at = "netAck"]
    /\ UNCHANGED <<exchVars, tryVars, connectVars, planVars, sliceVars, netVars, workerVars, loadVars, bootVars, rootNetConfig, rootNodeConfigs, upStream, readerPc, readNetConfig, readNodeConfig, nConsumed>>

\* writeToWorkers: writeNode(socketIndex, &nodeConfigs[nodeIndex]) up to its readAck
RootWriteNode ==
    /\ rootConfigPc.at = "node"
    /\ LET n == rootConfigPc.nodeIndex
       IN /\ downStream' = [downStream EXCEPT ![n] = @ \o writeNode(rootNodeConfigs[n])]
          /\ nWritten' = [nWritten EXCEPT ![n] = @ + Len(writeNode(rootNodeConfigs[n]))]
    /\ rootConfigPc' = [rootConfigPc EXCEPT !.at = "nodeAck"]
    /\ UNCHANGED <<exchVars, tryVars, connectVars, planVars, sliceVars, netVars, workerVars, loadVars, bootVars, rootNetConfig, rootNodeConfigs, upStream, readerPc, readNetConfig, readNodeConfig, nConsumed>>

\* network->readAck(socketIndex) at the end of writeNet and of writeNode
RootReadAck ==
    /\ rootConfigPc.at \in {"netAck", "nodeAck"}
    /\ LET n == rootConfigPc.nodeIndex
       IN /\ Len(upStream[n]) >= 4
          /\ upStream' = [upStream EXCEPT ![n] = SubSeq(@, 5, Len(@))]
          /\ rootConfigPc' =
                IF UintOf(upStream[n], 1) # ACK THEN [rootConfigPc EXCEPT !.at = "threw"]
                ELSE IF rootConfigPc.at = "netAck" THEN [rootConfigPc EXCEPT !.at = "node"]
                ELSE IF n + 1 < rootNetConfig.nNodes THEN [at |-> "net", nodeIndex |-> n + 1]
                ELSE [rootConfigPc EXCEPT !.at = "done"]
    /\ UNCHANGED <<exchVars, tryVars, connectVars, planVars, sliceVars, netVars, workerVars, loadVars, bootVars, rootNetConfig, rootNodeConfigs, downStream, readerPc, readNetConfig, readNodeConfig, nWritten, nConsumed>>

\* runWorkerApp: netConfig = configReader.readNet()
WorkerReadNet(n) ==
    /\ readerPc[n] = "net"
    /\ downStream[n] # <<>>
    /\ LET r == readNet(downStream[n])
       IN /\ readerPc' = [readerPc EXCEPT ![n] = IF r.threw THEN "threw" ELSE "node"]
          /\ readNetConfig' = [readNetConfig EXCEPT ![n] = r.config]
          /\ downStream' = [downStream EXCEPT ![n] = SubSeq(@, r.at, Len(@))]
          /\ nConsumed' = [nConsumed EXCEPT ![n] = @ + r.at - 1]
          /\ upStream' = [upStream EXCEPT ![n] = IF r.threw THEN @ ELSE @ \o UintBytes(ACK)]
    /\ UNCHANGED <<exchVars, tryVars, connectVars, planVars, sliceVars, netVars, workerVars, loadVars, bootVars, rootConfigPc, rootNetConfig, rootNodeConfigs, readNodeConfig, nWritten>>

\* runWorkerApp: nodeConfig = configReader.readNode()
WorkerReadNode(n) ==
    /\ readerPc[n] = "node"
    /\ downStream[n] # <<>>
    /\ LET r == readNode(downStream[n])
       IN /\ readerPc' = [readerPc EXCEPT ![n] = IF r.threw THEN "threw" ELSE "done"]
          /\ readNodeConfig' = [readNodeConfig EXCEPT ![n] = r.config]
          /\ downStream' = [downStream EXCEPT ![n] = SubSeq(@, r.at, Len(@))]
          /\ nConsumed' = [nConsumed EXCEPT ![n] = @ + r.at - 1]
          /\ upStream' = [upStream EXCEPT ![n] = IF r.threw THEN @ ELSE @ \o UintBytes(ACK)]
    /\ UNCHANGED <<exchVars, tryVars, connectVars, planVars, sliceVars, netVars, workerVars, loadVars, bootVars, rootConfigPc, rootNetConfig, rootNodeConfigs, readNetConfig, nWritten>>

NextConfig ==
    \/ RootWriteNet
    \/ RootWriteNode
    \/ RootReadAck
    \/ \E n \in ConfigWorkers : WorkerReadNet(n)
    \/ \E n \in ConfigWorkers : WorkerReadNode(n)

SpecConfig == InitConfig /\ [][NextConfig]_vars

(***************************************************************************)
(* nn-network.cpp: NnNetwork::connect (root) and NnNetwork::serve (each    *)
(* worker).  Worker i, node i + 1 of the net, listens on its port; a       *)
(* connect to it joins the queue of its listening socket and completes at  *)
(* once, an accept takes the connection that arrived first.  The root and  *)
(* a worker exchange messages over their connection, a FIFO in each        *)
(* direction.                                                              *)
(***************************************************************************)
MaxSockets == 4

ServeWorkers == 0..(nSockets - 1)
NodeOfWorker(i) == i + 1

\* the hosts and ports connect() sends to worker i: those of every other
\* worker, in order
AddressesFor(i) == SelectSeq([j \in 1..nSockets |-> j - 1], LAMBDA j : j # i)

\* what connect() writes to worker i before its readAckPacket
AddressMessages(i) ==
    <<[kind |-> "nSockets", val |-> nSockets], [kind |-> "nodeIndex", val |-> i]>>
    \o [k \in 1..(nSockets - 1) |-> [kind |-> "address", val |-> AddressesFor(i)[k]]]
AckMessage == [kind |-> "ACK", val |-> ACK]

\* a slip in connect(): the "root is ready" ACK written to a worker as soon
\* as that worker's own ACK is read
ReadyAcksAfter_Each(i) == {i}

\* connect(): the workers the root writes its ACK to after it has read the
\* ACK of worker i (all of them, after the last one)
ReadyAcksAfter(i) == IF i = nSockets - 1 THEN ServeWorkers ELSE {}

InitConnect ==
    /\ nSockets \in 1..MaxSockets
    /\ connectPc = [at |-> "connect", i |-> 0]
    /\ servePc = [i \in 0..(nSockets - 1) |-> "accept_root"]
    /\ backlog = [i \in 0..(nSockets - 1) |-> <<>>]
    /\ toWorker = [i \in 0..(nSockets - 1) |-> <<>>]
    /\ toRoot = [i \in 0..(nSockets - 1) |-> <<>>]
    /\ sockets = [i \in 0..(nSockets - 1) |-> <<>>]
    /\ hosts = [i \in 0..(nSockets - 1) |-> <<>>]
    /\ serveNodeIndex = [i \in 0..(nSockets - 1) |-> -1]
    /\ exchanged = [i \in 0..(nSockets - 1) |-> <<>>]
    /\ pc = "connect" /\ ratiosStr = <<>> /\ nNodesArg = 0 /\ hdr = NetHeader /\ stageDefs = <<>> /\ plan = NoPlan
    /\ sourceSize = NoSize /\ nodeIndex = 0 /\ cpuSlice = NoSlice /\ netSlice = NoSlice
    /\ NoNet
    /\ NoWorker
    /\ NoLoad
    /\ NoBoot
    /\ NoConfig
    /\ NoTryRead
    /\ NoExchange

\* connect(): connectSocket(hosts[i], ports[i]) and the writes up to readAckPacket
RootConnect ==
    /\ connectPc.at = "connect"
    /\ LET i == connectPc.i
       IN /\ backlog' = [backlog EXCEPT ![i] = Append(@, 0)]
          /\ toWorker' = [toWorker EXCEPT ![i] = @ \o AddressMessages(i)]
          /\ exchanged' = [exchanged EXCEPT ![i] = Append(@, "addresses")]
    /\ connectPc' = [connectPc EXCEPT !.at = "read_ack"]
    /\ UNCHANGED <<exchVars, tryVars, planVars, sliceVars, netVars, workerVars, loadVars, bootVars, configVars, nSockets, servePc, toRoot, sockets, hosts, serveNodeIndex>>

\* connect(): readAckPacket(fd) of worker i, then the next worker, or after
\* the last one the loop of writeAckPacket
RootReadWorkerAck ==
    /\ connectPc.at = "read_ack"
    /\ LET i == connectPc.i
       IN /\ toRoot[i] # <<>>
          /\ toRoot' = [toRoot EXCEPT ![i] = Tail(@)]
          /\ IF Head(toRoot[i]) # AckMessage
             THEN connectPc' = [connectPc EXCEPT !.at = "threw"] /\ UNCHANGED <<toWorker, exchanged>>
             ELSE /\ connectPc' = IF i + 1 < nSockets THEN [at |-> "connect", i |-> i + 1]
                                  ELSE [connectPc EXCEPT !.at = "initialized"]
                  /\ toWorker' = [j \in ServeWorkers |->
                                    IF j \in ReadyAcksAfter(i) THEN Append(toWorker[j], AckMessage)
                                    ELSE toWorker[j]]
                  /\ exchanged' = [j \in ServeWorkers |->
                                     IF j \in ReadyAcksAfter(i) THEN Append(exchanged[j], "ACK_from_root")
                                     ELSE exchanged[j]]
    /\ UNCHANGED <<exchVars, tryVars, planVars, sliceVars, netVars, workerVars, loadVars, bootVars, configVars, nSockets, servePc, backlog, sockets, hosts, serveNodeIndex>>

\* serve(): rootSocketFd = acceptSocket(socketSocket.fd), kept as sockets[0]
ServeAcceptRoot(i) ==
    /\ servePc[i] = "accept_root"
    /\ backlog[i] # <<>>
    /\ sockets' = [sockets EXCEPT ![i] = <<Head(backlog[i])>>]
    /\ backlog' = [backlog EXCEPT ![i] = Tail(@)]
    /\ servePc' = [servePc EXCEPT ![i] = "read_addresses"]
    /\ UNCHANGED <<exchVars, tryVars, planVars, sliceVars, netVars, workerVars, loadVars, bootVars, configVars, nSockets, connectPc, toWorker, toRoot, hosts, serveNodeIndex, exchanged>>

\* serve(): the reads of nSockets, nodeIndex and the nSockets - 1 hosts and
\* ports from the root socket, then writeAckPacket
ServeReadAddresses(i) ==
    /\ servePc[i] = "read_addresses"
    /\ sockets[i][1] = 0
    /\ Len(toWorker[i]) >= 2
    /\ Len(toWorker[i]) >= 2 + (toWorker[i][1].val - 1)
    /\ LET nNodes == toWorker[i][1].val - 1
       IN /\ serveNodeIndex' = [serveNodeIndex EXCEPT ![i] = toWorker[i][2].val]
          /\ hosts' = [hosts EXCEPT ![i] = [k \in 1..nNodes |-> toWorker[i][2 + k].val]]
          /\ toWorker' = [toWorker EXCEPT ![i] = SubSeq(@, 3 + nNodes, Len(@))]
    /\ toRoot' = [toRoot EXCEPT ![i] = Append(@, AckMessage)]
    /\ exchanged' = [exchanged EXCEPT ![i] = Append(@, "ACK_from_worker")]
    /\ servePc' = [servePc EXCEPT ![i] = "read_ready"]
    /\ UNCHANGED <<exchVars, tryVars, planVars, sliceVars, netVars, workerVars, loadVars, bootVars, configVars, nSockets, connectPc, backlog, sockets>>

\* serve(): readAckPacket(rootSocketFd), the "root is ready" packet
ServeReadReady(i) ==
    /\ servePc[i] = "read_ready"
    /\ toWorker[i] # <<>>
    /\ toWorker' = [toWorker EXCEPT ![i] = Tail(@)]
    /\ servePc' = [servePc EXCEPT ![i] =
                      IF Head(toWorker[i]) # AckMessage THEN "threw"
                      ELSE IF Len(hosts[i]) = 0 THEN "initialized" ELSE "peers"]
    /\ UNCHANGED <<exchVars, tryVars, planVars, sliceVars, netVars, workerVars, loadVars, bootVars, configVars, nSockets, connectPc, backlog, toRoot, sockets, hosts, serveNodeIndex, exchanged>>

\* the peer loop of serve() has filled sockets[1 .. Len(sockets[i]) - 1]
AfterPeer(i, socks) == IF Len(socks) = Len(hosts[i]) + 1 THEN "initialized" ELSE "peers"

\* serve(): sockets[socketIndex].assign(connectSocket(host, port)), i >= nodeIndex
ServeConnectPeer(i) ==
    /\ servePc[i] = "peers"
    /\ LET k == Len(sockets[i]) - 1
           host == hosts[i][k + 1]
       IN /\ k >= serveNodeIndex[i]
          /\ backlog' = [backlog EXCEPT ![host] = Append(@, NodeOfWorker(i))]
          /\ sockets' = [sockets EXCEPT ![i] = Append(@, NodeOfWorker(host))]
          /\ servePc' = [servePc EXCEPT ![i] = AfterPeer(i, Append(sockets[i], NodeOfWorker(host)))]
    /\ UNCHANGED <<exchVars, tryVars, planVars, sliceVars, netVars, workerVars, loadVars, bootVars, configVars, nSockets, connectPc, toWorker, toRoot, hosts, serveNodeIndex, exchanged>>

\* serve(): sockets[socketIndex].assign(acceptSocket(socketSocket.fd)), i < nodeIndex
ServeAcceptPeer(i) ==
    /\ servePc[i] = "peers"
    /\ Len(sockets[i]) - 1 < serveNodeIndex[i]
    /\ backlog[i] # <<>>
    /\ backlog' = [backlog EXCEPT ![i] = Tail(@)]
    /\ sockets' = [sockets EXCEPT ![i] = Append(@, Head(backlog[i]))]
    /\ servePc' = [servePc EXCEPT ![i] = AfterPeer(i, Append(sockets[i], Head(backlog[i])))]
    /\ UNCHANGED <<exchVars, tryVars, planVars, sliceVars, netVars, workerVars, loadVars, bootVars, configVars, nSockets, connectPc, toWorker, toRoot, hosts, serveNodeIndex, exchanged>>

NextConnect ==
    \/ RootConnect
    \/ RootReadWorkerAck
    \/ \E i \in ServeWorkers : ServeAcceptRoot(i)
    \/ \E i \in ServeWorkers : ServeReadAddresses(i)
    \/ \E i \in ServeWorkers : ServeReadReady(i)
    \/ \E i \in ServeWorkers : ServeConnectPeer(i)
    \/ \E i \in ServeWorkers : ServeAcceptPeer(i)

SpecConnect == InitConnect /\ [][NextConnect]_vars

(***************************************************************************)
(* nn-network.cpp tryReadSocket under WorkerLlmInference::                 *)
(* tryReadControlPacket, byte by byte: the root writes control packets,    *)
(* their bytes arrive in pieces, and every iteration of the recv loop is   *)
(* a step.                                                                 *)
(***************************************************************************)
\* the packets the root writes in a run
MaxControlPackets == 2
\* maxAttempts of tryReadControlPacket (10000 in app.cpp), scaled down
TryMaxAttempts == 2
\* the sizes of the pieces the bytes of the connection arrive in
PieceSizes == {1, 5, ControlPacketBytes}

ControlPacketBytesOf(packet) == StructBytes(<<packet.position, packet.batchSize, packet.flags>>)
ControlPacketAt(q) == Packet(UintOf(q, 1), UintOf(q, 5), UintOf(q, 9))

\* a slip in tryReadSocket: attempts are counted in the middle of a packet too
CountsAttempt_MidPacket(s, size, maxAttempts) == maxAttempts > 0

\* tryReadSocket on EAGAIN: the attempt is counted
CountsAttempt(s, size, maxAttempts) == s = size /\ maxAttempts > 0

InitTryRead ==
    /\ tryPc = "idle"
    /\ tryBlocking \in BOOLEAN
    /\ tryLink = "up"
    /\ inFlight = <<>> /\ rcvBuf = <<>>
    /\ tryData = <<>> /\ tryAttempts = 0 /\ tryResult = "none"
    /\ tryPackets = <<>> /\ trySent = <<>>
    /\ pc = "tryread" /\ ratiosStr = <<>> /\ nNodesArg = 0 /\ hdr = NetHeader /\ stageDefs = <<>> /\ plan = NoPlan
    /\ sourceSize = NoSize /\ nodeIndex = 0 /\ cpuSlice = NoSlice /\ netSlice = NoSlice
    /\ NoNet
    /\ NoWorker
    /\ NoLoad
    /\ NoBoot
    /\ NoConfig
    /\ NoConnect
    /\ NoExchange

\* RootLlmInference: network->writeAll(&controlPacket, sizeof(LlmControlPacket))
RootWriteControl ==
    /\ tryLink = "up"
    /\ Len(trySent) < MaxControlPackets
    /\ \E nBatch \in 0..1, flags \in 0..1 :
          LET packet == Packet(Len(trySent) + 256, nBatch, flags)
          IN /\ trySent' = Append(trySent, packet)
             /\ inFlight' = inFlight \o ControlPacketBytesOf(packet)
    /\ UNCHANGED <<exchVars, planVars, sliceVars, netVars, workerVars, loadVars, bootVars, configVars, connectVars, tryPc, tryBlocking, tryLink, rcvBuf, tryData, tryAttempts, tryResult, tryPackets>>

\* the next bytes of the connection reach the worker's socket
BytesArrive ==
    /\ inFlight # <<>>
    /\ \E k \in PieceSizes :
          LET n == Min(k, Len(inFlight))
          IN /\ rcvBuf' = rcvBuf \o SubSeq(inFlight, 1, n)
             /\ inFlight' = SubSeq(inFlight, n + 1, Len(inFlight))
    /\ UNCHANGED <<exchVars, planVars, sliceVars, netVars, workerVars, loadVars, bootVars, configVars, connectVars, tryPc, tryBlocking, tryLink, tryData, tryAttempts, tryResult, tryPackets, trySent>>

\* the root closes the connection
RootCloses ==
    /\ tryLink = "up"
    /\ tryLink' = "closed"
    /\ UNCHANGED <<exchVars, planVars, sliceVars, netVars, workerVars, loadVars, bootVars, configVars, connectVars, tryPc, tryBlocking, inFlight, rcvBuf, tryData, tryAttempts, tryResult, tryPackets, trySent>>

\* tryReadControlPacket: tryReadWithMaxAttempts(ROOT_SOCKET_INDEX, &controlPacket, 12, 10000)
TryReadCall ==
    /\ tryPc = "idle"
    /\ tryPc' = "recv"
    /\ tryData' = <<>>
    /\ tryAttempts' = TryMaxAttempts
    /\ UNCHANGED <<exchVars, planVars, sliceVars, netVars, workerVars, loadVars, bootVars, configVars, connectVars, tryBlocking, tryLink, inFlight, rcvBuf, tryResult, tryPackets, trySent>>

\* tryReadSocket: recv gives r > 0 bytes; with the last byte the call
\* returns true and tryReadControlPacket has its packet
RecvBytes ==
    /\ tryPc = "recv"
    /\ rcvBuf # <<>>
    /\ LET s == ControlPacketBytes - Len(tryData)
           r == Min(s, Len(rcvBuf))
           data == tryData \o SubSeq(rcvBuf, 1, r)
       IN /\ rcvBuf' = SubSeq(rcvBuf, r + 1, Len(rcvBuf))
          /\ tryData' = data
          /\ IF s - r = 0
             THEN /\ tryPc' = "idle"
                  /\ tryResult' = "true"
                  /\ tryPackets' = Append(tryPackets, ControlPacketAt(data))
             ELSE UNCHANGED <<tryPc, tryResult, tryPackets>>
    /\ UNCHANGED <<exchVars, planVars, sliceVars, netVars, workerVars, loadVars, bootVars, configVars, connectVars, tryBlocking, tryLink, inFlight, tryAttempts, trySent>>

\* tryReadSocket: recv gives 0, the connection is closed and drained
RecvClosed ==
    /\ tryPc = "recv"
    /\ rcvBuf = <<>> /\ inFlight = <<>> /\ tryLink = "closed"
    /\ tryPc' = "threw"
    /\ tryResult' = "threw"
    /\ UNCHANGED <<exchVars, planVars, sliceVars, netVars, workerVars, loadVars, bootVars, configVars, connectVars, tryBlocking, tryLink, inFlight, rcvBuf, tryData, tryAttempts, tryPackets, trySent>>

\* tryReadSocket: recv gives EAGAIN on the non-blocking socket (a blocking
\* recv waits instead)
RecvEagain ==
    /\ tryPc = "recv"
    /\ ~tryBlocking
    /\ rcvBuf = <<>>
    /\ ~(inFlight = <<>> /\ tryLink = "closed")
    /\ IF CountsAttempt(ControlPacketBytes - Len(tryData), ControlPacketBytes, tryAttempts)
       THEN /\ tryAttempts' = tryAttempts - 1
            /\ IF tryAttempts - 1 = 0
               THEN tryPc' = "idle" /\ tryResult' = "false"
               ELSE UNCHANGED <<tryPc, tryResult>>
       ELSE UNCHANGED <<tryPc, tryResult, tryAttempts>>
    /\ UNCHANGED <<exchVars, planVars, sliceVars, netVars, workerVars, loadVars, bootVars, configVars, connectVars, tryBlocking, tryLink, inFlight, rcvBuf, tryData, tryPackets, trySent>>

NextTryRead ==
    \/ RootWriteControl
    \/ BytesArrive
    \/ RootCloses
    \/ TryReadCall
    \/ RecvBytes
    \/ RecvClosed
    \/ RecvEagain

SpecTryRead == InitTryRead /\ [][NextTryRead]_vars

(***************************************************************************)
(* nn-core.hpp: the move constructor of NnUnevenPartitionPlan, as          *)
(* runInferenceApp uses it to put the result of createPartitionPlan on     *)
(* the heap when the copy is not elided.                                   *)
(***************************************************************************)
\* memory that holds no stage array
WildStages == <<[stageIndex |-> -1, startLayer |-> -1, endLayer |-> -1, nLayers |-> -1,
                 rootNodeIndex |-> -1, nNodes |-> 0, nodeIndices |-> <<>>]>>

\* a member the constructor does not initialize has an indeterminate value:
\* zero, what the source had, or anything else
IndeterminateCounts(other) == {0, other.nStages, other.nStages + 1}
IndeterminateStages(other) == {<<>>, other.stages, WildStages}

\* a move constructor that takes over every member
MoveConstruct_AllMembers(other, nStagesLeft, stagesLeft) == other

\* NnUnevenPartitionPlan(NnUnevenPartitionPlan&& other): the initializer
\* list names nNodes and the five splits; nStages and stages are left as
\* the memory of the new object had them
MoveConstruct(other, nStagesLeft, stagesLeft) ==
    [nNodes |-> other.nNodes,
     nStages |-> nStagesLeft,
     stages |-> stagesLeft,
     headSplit |-> other.headSplit,
     kvHeadSplit |-> other.kvHeadSplit,
     vocabSplit |-> other.vocabSplit,
     ffnSplit |-> other.ffnSplit,
     dimSplit |-> other.dimSplit]

InitMove ==
    /\ pc = "parsed"
    /\ ratiosStr = <<>> /\ nNodesArg = 0
    /\ hdr \in CliHeaders
    /\ stageDefs \in SliceDefs
    /\ plan = NoPlan
    /\ sourceSize = NoSize /\ nodeIndex = 0 /\ cpuSlice = NoSlice /\ netSlice = NoSlice
    /\ NoNet
    /\ NoWorker
    /\ NoLoad
    /\ NoBoot
    /\ NoConfig
    /\ NoConnect
    /\ NoTryRead
    /\ NoExchange

\* planPtr.reset(new NnUnevenPartitionPlan(createPartitionPlan(...))) with
\* the move constructor called
MovePlan ==
    /\ pc = "planned"
    /\ \E nStagesLeft \in IndeterminateCounts(plan), stagesLeft \in IndeterminateStages(plan) :
          plan' = MoveConstruct(plan, nStagesLeft, stagesLeft)
    /\ pc' = "moved"
    /\ UNCHANGED <<exchVars, tryVars, connectVars, configVars, bootVars, loadVars, workerVars, ratiosStr, nNodesArg, hdr, stageDefs, sliceVars, netVars>>

NextMove == CreatePlan \/ MovePlan

SpecMove == InitMove /\ [][NextMove]_vars

(***************************************************************************)
(* nn-network.cpp: SYNC_NODE_SLICES over sockets of finite capacity.  A    *)
(* thread of a node first sends its slice to every target of its share     *)
(* (writeMany), and only then receives the slices of those targets         *)
(* (readMany).  wire counts the bytes that send has accepted on a          *)
(* connection and recv has not yet taken: the send buffer of one end and   *)
(* the receive buffer of the other hold at most SocketCapacity bytes.      *)
(* A send on a full connection blocks, or fails with EAGAIN and is tried   *)
(* again by the loop of writeMany: either way nothing changes.  A send     *)
(* takes what fits of its chunk, a recv what is there of its io.            *)
(***************************************************************************)
SocketCapacity == 384

MAX_CHUNK_SIZE == 65536

\* plans of two or three nodes
ExchangeDefs ==
    { d \in SliceDefs : SumSeq([k \in 1..Len(d) |-> Len(d[k].tpRatios)]) \in {2, 3} }

ThreadsOfNodes(nThr) == { <<n, t>> : n \in Nodes, t \in 0..(nThr - 1) }

ExchangeThreads == ThreadsOfNodes(exThreads)

\* the row of ZQ, whose syncs are SYNC_NODE_SLICES
ZqSliceIos(n, t, nThr, floatType) ==
    syncNodeSlices(FALSE, plan, plan.stages[StageOfNode(plan, n)], n,
                   getBytes(floatType, hdr.dim * plan.nNodes), nThr, t)

ExchangeIos(n, t) == ZqSliceIos(n, t, exThreads, exFloatType)

InitExchange ==
    /\ pc = "parsed"
    /\ ratiosStr = <<>> /\ nNodesArg = 0
    /\ hdr \in CliHeaders
    /\ stageDefs \in ExchangeDefs
    /\ plan = NoPlan
    /\ sourceSize = NoSize /\ nodeIndex = 0 /\ cpuSlice = NoSlice /\ netSlice = NoSlice
    /\ exThreads = 0 /\ exFloatType = "" /\ exPhase = <<>> /\ exIos = <<>> /\ wire = <<>>
    /\ NoNet
    /\ NoWorker
    /\ NoLoad
    /\ NoBoot
    /\ NoConfig
    /\ NoConnect
    /\ NoTryRead

\* every thread of every node enters syncNodeSlices for a row of ZQ; a
\* thread with no socket in its share returns at once
EnterSync ==
    /\ pc = "planned"
    /\ pc' = "syncing"
    /\ \E nThr \in 1..MaxThreads, ft \in {"F_32", "F_16"} :
          /\ exThreads' = nThr
          /\ exFloatType' = ft
          /\ exIos' = [k \in ThreadsOfNodes(nThr) |-> ZqSliceIos(k[1], k[2], nThr, ft).writes]
          /\ exPhase' = [k \in ThreadsOfNodes(nThr) |->
                           IF Len(ZqSliceIos(k[1], k[2], nThr, ft).writes) = 0 THEN "done" ELSE "write"]
    /\ wire' = [c \in Nodes \X Nodes |-> 0]
    /\ UNCHANGED <<tryVars, connectVars, configVars, bootVars, loadVars, workerVars, ratiosStr, nNodesArg, hdr, stageDefs, plan, sliceVars, netVars>>

\* writeMany: one send of the loop
Send(k, i) ==
    /\ pc = "syncing"
    /\ exPhase[k] = "write"
    /\ exIos[k][i].len > 0
    /\ LET c == <<k[1], PeerOf(k[1], exIos[k][i].sock)>>
           chunkSize == Min(exIos[k][i].len, MAX_CHUNK_SIZE)
       IN /\ wire[c] < SocketCapacity
          /\ LET s == Min(chunkSize, SocketCapacity - wire[c]) IN
                /\ wire' = [wire EXCEPT ![c] = @ + s]
                /\ exIos' = [exIos EXCEPT ![k][i].len = @ - s]
    /\ UNCHANGED <<tryVars, connectVars, configVars, bootVars, loadVars, workerVars, planVars, sliceVars, netVars, exThreads, exFloatType, exPhase>>

\* writeMany returns when every io is sent; the ios are set for readMany
StartReceive(k) ==
    /\ pc = "syncing"
    /\ exPhase[k] = "write"
    /\ \A i \in 1..Len(exIos[k]) : exIos[k][i].len = 0
    /\ exPhase' = [exPhase EXCEPT ![k] = "read"]
    /\ exIos' = [exIos EXCEPT ![k] = ExchangeIos(k[1], k[2]).reads]
    /\ UNCHANGED <<tryVars, connectVars, configVars, bootVars, loadVars, workerVars, planVars, sliceVars, netVars, exThreads, exFloatType, wire>>

\* readMany: one recv of the loop
Recv(k, i) ==
    /\ pc = "syncing"
    /\ exPhase[k] = "read"
    /\ exIos[k][i].len > 0
    /\ LET c == <<PeerOf(k[1], exIos[k][i].sock), k[1]>>
       IN /\ wire[c] > 0
          /\ LET r == Min(exIos[k][i].len, wire[c]) IN
                /\ wire' = [wire EXCEPT ![c] = @ - r]
                /\ exIos' = [exIos EXCEPT ![k][i].len = @ - r]
    /\ UNCHANGED <<tryVars, connectVars, configVars, bootVars, loadVars, workerVars, planVars, sliceVars, netVars, exThreads, exFloatType, exPhase>>

\* readMany returns when every io is read
LeaveSync(k) ==
    /\ pc = "syncing"
    /\ exPhase[k] = "read"
    /\ \A i \in 1..Len(exIos[k]) : exIos[k][i].len = 0
    /\ exPhase' = [exPhase EXCEPT ![k] = "done"]
    /\ UNCHANGED <<tryVars, connectVars, configVars, bootVars, loadVars, workerVars, planVars, sliceVars, netVars, exThreads, exFloatType, exIos, wire>>

NextExchange ==
    \/ CreatePlan
    \/ EnterSync
    \/ \E k \in ExchangeThreads : \E i \in 1..Len(exIos[k]) : Send(k, i)
    \/ \E k \in ExchangeThreads : StartReceive(k)
    \/ \E k \in ExchangeThreads : \E i \in 1..Len(exIos[k]) : Recv(k, i)
    \/ \E k \in ExchangeThreads : LeaveSync(k)

SpecExchange == InitExchange /\ [][NextExchange]_vars

(***************************************************************************)
(* Properties of the plan.                                                 *)
(***************************************************************************)
Planned == pc = "planned"

RECURSIVE SumOver(_, _)
SumOver(f, S) == IF S = {} THEN 0 ELSE LET x == CHOOSE x \in S : TRUE IN f[x] + SumOver(f, S \ {x})

StageSum(split, st) == SumOver(split.lengths, StageNodes(st))

\* C1: in every plan and every stage, each of the five splits restricted to
\* the nodes of the stage sums to that split's global dimension.
C1_StageSplitsSumToGlobal ==
    Planned =>
        \A s \in 1..plan.nStages :
            LET st == plan.stages[s]
            IN /\ StageSum(plan.headSplit, st) = hdr.nHeads
               /\ StageSum(plan.kvHeadSplit, st) = hdr.nKvHeads
               /\ StageSum(plan.vocabSplit, st) = hdr.vocabSize
               /\ StageSum(plan.ffnSplit, st) = hdr.ffnDim
               /\ StageSum(plan.dimSplit, st) = hdr.dim

\* a plan with a stage whose ratios are uneven enough that rounding and the
\* clamp to the remaining dimension both act
C1_Witness ==
    /\ Planned
    /\ plan.nStages >= 2
    /\ \E s \in 1..plan.nStages :
          /\ plan.stages[s].nNodes >= 3
          /\ \E i \in StageNodes(plan.stages[s]) :
                plan.dimSplit.lengths[i] # plan.dimSplit.lengths[plan.stages[s].rootNodeIndex]

\* C2: on every node the Q-head split is the KV-head split scaled by
\* nHeads / nKvHeads, for lengths and for starts.
C2_GqaAlignment ==
    Planned =>
        \A i \in 0..(plan.nNodes - 1) :
            /\ plan.headSplit.lengths[i] = plan.kvHeadSplit.lengths[i] * (hdr.nHeads \div hdr.nKvHeads)
            /\ plan.headSplit.starts[i] = plan.kvHeadSplit.starts[i] * (hdr.nHeads \div hdr.nKvHeads)

C2_Witness ==
    /\ Planned
    /\ hdr.nHeads \div hdr.nKvHeads = 2
    /\ \E i \in 0..(plan.nNodes - 1) :
          plan.kvHeadSplit.starts[i] > 0 /\ plan.kvHeadSplit.lengths[i] > 1

\* C3: for a plan built from an accepted ratios string the layer ranges of
\* the stages are consecutive from layer 0, endLayer = startLayer + nLayers,
\* and the nLayers add up to the layer count of the model.
C3_LayerRanges ==
    (Planned /\ ratiosStr # <<>>) =>
        /\ plan.stages[1].startLayer = 0
        /\ \A s \in 1..plan.nStages :
              /\ plan.stages[s].endLayer = plan.stages[s].startLayer + plan.stages[s].nLayers
              /\ s > 1 => plan.stages[s].startLayer = plan.stages[s - 1].endLayer
        /\ plan.stages[plan.nStages].endLayer = hdr.nLayers
        /\ SumSeq([s \in 1..plan.nStages |-> plan.stages[s].nLayers]) = hdr.nLayers

\* a string with auto-assigned layers over stages of different weight
C3_Witness ==
    /\ Planned
    /\ ratiosStr # <<>>
    /\ plan.nStages >= 2
    /\ \E s \in 1..plan.nStages : stageDefs[s].nLayers # stageDefs[1].nLayers
    /\ \A i \in 1..Len(ratiosStr) : ratiosStr[i] # "@"

(***************************************************************************)
(* Properties of the distributed forward.                                  *)
(***************************************************************************)
Running == pc = "running"

\* the stage of node n
StageOf(n) == plan.stages[StageOfNode(plan, n)]

\* the root of the stage before the stage of node n (which is not the first)
PrevRootOf(n) == plan.stages[StageOf(n).stageIndex].rootNodeIndex

\* the first segment of that kind of node n (0: none)
SegmentOfKind(n, kind) ==
    LET of == { g \in DOMAIN nodeConfig[n] : nodeConfig[n][g].kind = kind }
    IN IF of = {} THEN 0 ELSE CHOOSE g \in of : \A j \in of : g <= j

\* the segment of node n whose syncs hold one of that type (0: none)
SegmentOfSync(n, syncType) ==
    LET of == { g \in DOMAIN nodeConfig[n] :
                  \E si \in DOMAIN SyncsOf(n, g) : SyncsOf(n, g)[si].syncType = syncType }
    IN IF of = {} THEN 0 ELSE CHOOSE g \in of : \A j \in of : g <= j

\* the row of X the stage of node n works on in forward f: the embedding of
\* node 0 in the first stage, what the root of the stage before sent on
\* otherwise
StageRow(n, f) ==
    IF StageOf(n).stageIndex = 0 THEN Val(0, f, 1)
    ELSE Val(PrevRootOf(n), f, SegmentOfKind(PrevRootOf(n), "pp_send"))

\* the reads thread t of node n is waiting for in a sync of that type
PendingReads(n, t, syncType) ==
    IF npc[n] = "sync" /\ thr[n][t].ph = "recv"
       /\ SyncsOf(n, segmentIndex[n])[thr[n][t].si].syncType = syncType
    THEN LET reads == ThreadIos(n, t, segmentIndex[n], thr[n][t].si).reads
         IN { reads[i] : i \in 1..Len(reads) }
    ELSE {}

\* node n is in forward f >= 1 and has left the segment that holds its sync
\* of that type, but not yet written X again
PastSync(n, syncType) ==
    /\ fwd[n] >= 1
    /\ SegmentOfSync(n, syncType) > 0
    /\ segmentIndex[n] > SegmentOfSync(n, syncType)
    /\ SegmentOfKind(n, "pp_send") > 0 => segmentIndex[n] < SegmentOfKind(n, "pp_send")

\* C4: in SYNC_WITH_ROOT every non-root member reads from the root of its
\* own stage, every row on the wire goes from a stage root to a member of
\* that stage, and a member that has completed the sync holds the row of
\* its stage.
C4_WithRootStaysInStage ==
    Running =>
        /\ \A n \in Nodes : \A t \in Threads : \A io \in PendingReads(n, t, "SYNC_WITH_ROOT") :
              PeerOf(n, io.sock) = StageOf(n).rootNodeIndex
        /\ \A c \in DOMAIN chan : \A i \in 1..Len(chan[c]) :
              chan[c][i].sync = "SYNC_WITH_ROOT" => c[1] = StageOf(c[2]).rootNodeIndex
        /\ \A n \in Nodes : PastSync(n, "SYNC_WITH_ROOT") => xv[n] = StageRow(n, fwd[n])

\* C5: when SYNC_NODE_SLICES completes on a member of a stage, the member
\* has sent its slice to every other member of the stage and holds, in the
\* slot of every other member, the slice that member wrote in this segment.
C5_SlicesExchanged ==
    [][Running =>
          \A n \in Nodes :
             (/\ npc[n] = "sync"
              /\ nodeConfig[n][segmentIndex[n]].kind \in {"att", "ff"}
              /\ segmentIndex'[n] # segmentIndex[n])
             => \A o \in StageNodes(StageOf(n)) \ {n} :
                   /\ o \in sent[n]
                   /\ zqv'[n][o] = Val(o, fwd[n], segmentIndex[n])]_vars

\* C6: SYNC_PP_RECV on the root of a stage reads from the root of the stage
\* before, every row SYNC_PP_SEND puts on the wire goes from the root of a
\* stage to the root of the next, and the root that has completed
\* SYNC_PP_RECV holds the row the stage before sent.
C6_PipelineHandOff ==
    Running =>
        /\ \A n \in Nodes : \A t \in Threads : \A io \in PendingReads(n, t, "SYNC_PP_RECV") :
              PeerOf(n, io.sock) = PrevRootOf(n)
        /\ \A c \in DOMAIN chan : \A i \in 1..Len(chan[c]) :
              chan[c][i].sync = "SYNC_PP_SEND" =>
                 /\ c[1] = StageOf(c[1]).rootNodeIndex
                 /\ c[2] = StageOf(c[2]).rootNodeIndex
                 /\ StageOf(c[2]).stageIndex = StageOf(c[1]).stageIndex + 1
        /\ \A n \in Nodes :
              (n = StageOf(n).rootNodeIndex /\ PastSync(n, "SYNC_PP_RECV")) => xv[n] = StageRow(n, fwd[n])

\* the node has, somewhere in its forward, a write of its LG slice to node 0
SendsLogitsToRoot(n) ==
    \E g \in DOMAIN nodeConfig[n] : \E si \in DOMAIN SyncsOf(n, g) : \E t \in Threads :
       /\ SyncsOf(n, g)[si].syncType = "SYNC_NODE_SLICES_EXCEPT_ROOT"
       /\ \E i \in 1..Len(ThreadIos(n, t, g, si).writes) :
             PeerOf(n, ThreadIos(n, t, g, si).writes[i].sock) = 0

\* C7: in its gather on LG node 0 waits for a slice only from nodes that
\* send it one in the forward.
C7_GatherWaitsForSenders ==
    Running =>
        \A t \in Threads : \A io \in PendingReads(0, t, "SYNC_NODE_SLICES_EXCEPT_ROOT") :
           SendsLogitsToRoot(PeerOf(0, io.sock))

\* node n has run the ops of its first layer in its current forward
RanFirstLayer(n) ==
    /\ fwd[n] >= 1
    /\ segmentIndex[n] >= SegmentOfKind(n, "att")

C9_BroadcastsReceivedRow ==
    Running =>
        \A c \in DOMAIN chan : \A i \in 1..Len(chan[c]) :
           (chan[c][i].sync = "SYNC_WITH_ROOT" /\ StageOf(c[1]).stageIndex >= 1) =>
              chan[c][i].val = StageRow(c[1], chan[c][i].f)

\* C10: for every plan, node and pipe the byte offset and byte length of the
\* node's slice in SYNC_NODE_SLICES equal the offset and length the CPU device
\* resolves for the node's BATCHED_SLICE pointer on that pipe.
\* (Stated for slices that are not empty on both sides, where the offset of
\* the slice carries no data.)
C10_SliceMatchersAgree ==
    (pc = "sliced" /\ (netSlice.length > 0 \/ cpuSlice.length > 0)) =>
        /\ netSlice.offset = cpuSlice.offset
        /\ netSlice.length = cpuSlice.length

(***************************************************************************)
(* The control protocol of a forward.                                      *)
(***************************************************************************)
Workers == DOMAIN npc \ {0}

\* the control packets among the chunks i.. of a stream
ControlsFrom(q, i) == { j \in i..Len(q) : q[j].sync = "CONTROL" }

\* the step is the read of a control packet by worker n
ReadsControl(n) ==
    /\ npc[n] = "idle"
    /\ Avail(chan'[<<0, n>>]) = Avail(chan[<<0, n>>]) - ControlPacketBytes

\* C11: a forward of the root starts with one control packet, holding the
\* position and the batch size of the forward, written to every worker
\* socket ahead of anything else the forward writes there; a worker starts
\* a forward only by reading a control packet, and a packet read with
\* batchSize > 0 starts exactly one forward, run at the packet's position
\* and batch size.
C11_OneForwardPerPacket ==
    [][/\ RootForward =>
            \A b \in Workers :
                LET q == chan[<<0, b>>]
                    q2 == chan'[<<0, b>>]
                IN /\ Len(q2) > Len(q)
                   /\ SubSeq(q2, 1, Len(q)) = q
                   /\ q2[Len(q) + 1] = Chunk(ControlPacketBytes,
                                             Packet(positionPipe'[0], batchSize'[0], controlPacket[0].flags),
                                             "CONTROL", fwd'[0])
                   /\ batchSize'[0] > 0
                   /\ ControlsFrom(q2, Len(q) + 1) = {Len(q) + 1}
       /\ \A n \in Workers :
            /\ fwd'[n] # fwd[n] => ReadsControl(n)
            /\ ReadsControl(n) =>
                 LET q == chan[<<0, n>>]
                 IN /\ (q[1].sync = "CONTROL" /\ q[1].whole) => controlPacket'[n] = q[1].val
                    /\ IF controlPacket'[n].batchSize > 0
                       THEN /\ fwd'[n] = fwd[n] + 1
                            /\ positionPipe'[n] = controlPacket'[n].position
                            /\ batchSize'[n] = controlPacket'[n].batchSize
                       ELSE fwd'[n] = fwd[n]
      ]_vars

\* a worker runs the second forward of a prompt of several batches, at the
\* position and with the batch size of the packet the root wrote for it
C11_Witness ==
    /\ pc = "running"
    /\ \E n \in Workers :
         /\ fwd[n] = 2
         /\ npc[n] # "stopped"
         /\ controlPacket[n] = controlPacket[0]
         /\ positionPipe[n] = ForwardFrom(0, 2).position
         /\ positionPipe[n] > 0
         /\ batchSize[n] = ForwardFrom(0, 2).batchSize

\* C12 as amended: a worker that reads a control packet with batchSize = 0
\* starts no forward for it and leaves the position pipe and the batch size
\* of its execution as they were; it leaves its inner loop, the threads of
\* its executor stay where they were, and it runs nothing more on this
\* connection.  The packet itself, position included, is read into the
\* worker's controlPacket.
C12_StopPacketLeavesLoop ==
    [][\A n \in Workers :
          /\ (ReadsControl(n) /\ controlPacket'[n].batchSize = 0) =>
                /\ fwd'[n] = fwd[n]
                /\ positionPipe'[n] = positionPipe[n]
                /\ batchSize'[n] = batchSize[n]
                /\ segmentIndex'[n] = segmentIndex[n]
                /\ thr'[n] = thr[n]
                /\ npc'[n] = "stopped"
                /\ (chan[<<0, n>>][1].sync = "CONTROL" /\ chan[<<0, n>>][1].whole)
                       => controlPacket'[n] = chan[<<0, n>>][1].val
          /\ npc[n] = "stopped" =>
                /\ npc'[n] = "stopped"
                /\ fwd'[n] = fwd[n]
                /\ controlPacket'[n] = controlPacket[n]
      ]_vars

\* C12 as stated: the position of a stop packet is neither read nor stored,
\* the worker still holds the position of its last forward
C12_StopPositionNotStored ==
    [][\A n \in Workers :
          (ReadsControl(n) /\ fwd[n] >= 1 /\ controlPacket'[n].batchSize = 0)
              => controlPacket'[n].position = controlPacket[n].position
      ]_vars

\* a worker has run two forwards, the last at a position past 0, and has
\* read the stop packet of the root
C12_Witness ==
    /\ pc = "running"
    /\ \E n \in Workers :
         /\ npc[n] = "stopped"
         /\ fwd[n] = 2
         /\ positionPipe[n] = ForwardFrom(0, 2).position
         /\ positionPipe[n] > 0
         /\ controlPacket[n] = Packet(0, 0, controlPacket[0].flags)
         /\ npc[0] = "stopped"

(***************************************************************************)
(* Profiling: the perf packets of a forward.                               *)
(***************************************************************************)
\* the perf packets waiting in a stream
PerfsIn(q) == { j \in 1..Len(q) : q[j].sync = "PERF" }

\* the forwards node n has run to their end
ForwardsDone(n) == fwd[n] - (IF npc[n] = "sync" THEN 1 ELSE 0)

\* the perf reads the root has done: one after each forward it has run
PerfReads == IF benchmark.root THEN fwd[0] - (IF npc[0] \in {"sync", "perf"} THEN 1 ELSE 0) ELSE 0

\* C14: with the profile bit in the control packets (the root runs with
\* --benchmark) every worker has written one perf packet for each forward
\* it has finished, whatever its own --benchmark, and none without the bit;
\* the root waiting for the perf packets of a forward is never at a
\* standstill, and what it read last is the packet of every worker for the
\* forward it has just run.
C14_OnePerfPacketPerForward ==
    pc = "running" =>
        /\ \A n \in Workers :
              Cardinality(PerfsIn(chan[<<n, 0>>])) + PerfReads
                  = (IF benchmark.root THEN ForwardsDone(n) ELSE 0)
        /\ npc[0] = "perf" => ENABLED NextNet
        /\ (benchmark.root /\ npc[0] = "idle" /\ fwd[0] >= 1) =>
              /\ Len(lastPerf) = Cardinality(Workers)
              /\ \A b \in Workers : lastPerf[b] = PerfOf(b, controlPacket[0])

\* the root profiles, the workers run without --benchmark, and the root has
\* read the perf packets of its second forward
C14_Witness ==
    /\ pc = "running"
    /\ benchmark.root /\ ~benchmark.worker
    /\ npc[0] = "idle"
    /\ fwd[0] = 2
    /\ Workers # {}
    /\ \A b \in Workers :
          /\ npc[b] = "idle"
          /\ chan[<<b, 0>>] = <<>>
          /\ lastPerf[b] = PerfOf(b, Packet(ForwardFrom(0, 2).position, ForwardFrom(0, 2).batchSize,
                                            LLM_CTRL_PROFILE))

(***************************************************************************)
(* The worker process: failures and turbo.                                 *)
(***************************************************************************)
\* C13: whenever a socket read or write of the inference loop has failed,
\* the worker has left the loop, its sockets are closed and it is back in
\* serve for a new root; the process has not ended.
C13_WorkerSurvivesSocketFailure ==
    wlast \in {"threw", "sigpipe"} => (wpc = "serve" /\ wsock = "closed")

\* the step is an iteration of the inner loop of the worker
LoopStep == wpc = "loop" /\ (wlast' # wlast \/ wpc' # wpc \/ isFirstAttempt' # isFirstAttempt \/ startTime' # startTime)

\* C15: a worker running with turbo leaves non-blocking mode only in its
\* inner loop, on a read that gave no control packet when more than a
\* second of clock() has gone by since it first looked for one, and every
\* such read but the first after a forward does switch to blocking mode;
\* the sockets are non-blocking again when the next forward is executed.
C15_TurboFallsBackAndReturns ==
    [][/\ (wsock = "nonblocking" /\ wsock' = "blocking") =>
             /\ wpc = "loop" /\ wpc' = "loop"
             /\ inbox = <<>>
             /\ clock - startTime > CLOCKS_PER_SEC
             /\ ~isTurboEnabled'
       /\ (LoopStep /\ wlast' = "nothing" /\ isTurboEnabled /\ ~isFirstAttempt
              /\ clock - startTime > CLOCKS_PER_SEC) => wsock' = "blocking"
       /\ (netTurbo /\ wpc' = "forward") => (wsock' = "nonblocking" /\ isTurboEnabled')
      ]_vars

\* a worker with turbo has run a forward, found no control packet for more
\* than a second and fell back to blocking mode; the packet of the next
\* forward is waiting on its root socket
C15_Witness ==
    /\ netTurbo
    /\ wpc = "loop"
    /\ wfwd = 1
    /\ wsock = "blocking"
    /\ ~isTurboEnabled
    /\ wlast = "nothing"
    /\ clock - startTime > CLOCKS_PER_SEC
    /\ inbox # <<>> /\ ~IsStop(inbox[1])

(***************************************************************************)
(* Local loading: the file pointer.                                        *)
(***************************************************************************)
\* the bytes of the whole tensors of a layer, in the order of the file
FfnTensorBytes(h, x) ==
    << size2D(x.weightType, h.dim, FfDim(h, x)),
       size2D(x.weightType, FfDim(h, x), h.dim),
       size2D(x.weightType, h.dim, FfDim(h, x)) >>

RECURSIVE Repeated(_, _)
Repeated(q, k) == IF k = 0 THEN <<>> ELSE q \o Repeated(q, k - 1)

LayerTensorBytes(h, x) ==
    << size2D(x.weightType, h.dim, QDim(h)),
       size2D(x.weightType, h.dim, KvDim(h)),
       size2D(x.weightType, h.dim, KvDim(h)),
       size2D(x.weightType, QDim(h), h.dim) >>
    \o (IF x.nExperts > 0
        THEN <<size2D("F_32", h.dim, x.nExperts)>> \o Repeated(FfnTensorBytes(h, x), x.nExperts)
        ELSE FfnTensorBytes(h, x))
    \o (IF x.archType \in {"QWEN3", "QWEN3_MOE"}
        THEN <<size1D("F_32", HeadDim(h)), size1D("F_32", HeadDim(h))>>
        ELSE <<>>)
    \o <<size1D("F_32", h.dim), size1D("F_32", h.dim)>>

\* the offset in the file of tensor k (from 1) of layer l (from 0)
TensorOffset(h, x, l, k) ==
    size2D("F_32", h.vocabSize, h.dim)
    + l * SumSeq(LayerTensorBytes(h, x))
    + SumSeq(SubSeq(LayerTensorBytes(h, x), 1, k - 1))

Loading == lpc \in {"layer", "ops", "done", "failed"}

\* C16: while a node loads, its file pointer is at the start of the tensor
\* it comes to next, an offset fixed by the sizes of the whole tensors
\* before it and so the same on every node: each tensor of a layer the node
\* owns moves the pointer by the size of the whole tensor, a layer of
\* another stage by the sizes of all its tensors, and the final block alike.
C16_PointerAtTensorBoundary ==
    /\ lpc = "layer" => filePtr = TensorOffset(hdr, lh, loadLayerIndex, 1)
    /\ lpc = "ops" => /\ filePtr = TensorOffset(hdr, lh, loadLayerIndex, opIndex)
                      /\ layerStartPtr = TensorOffset(hdr, lh, loadLayerIndex, 1)
    /\ lpc = "done" => filePtr = TensorOffset(hdr, lh, hdr.nLayers, 1)
                                 + size1D("F_32", hdr.dim) + size2D(lh.weightType, hdr.dim, hdr.vocabSize)

\* a node of the second stage, one of several, has passed the layer of the
\* first stage and is past the first tensors of its own first layer, of
\* which it loaded a part only
C16_Witness ==
    /\ lpc = "ops"
    /\ plan.nStages >= 2
    /\ StageOfNode(plan, loaderNodeIndex) = 2
    /\ MyStage.nNodes >= 2
    /\ loadLayerIndex = MyStage.startLayer
    /\ opIndex = 6
    /\ lh.nExperts > 0
    /\ sliceRowMatmulAttUneven(lh.weightType, hdr.dim, HeadDim(hdr), plan.headSplit, QDim(hdr),
                               loaderNodeIndex).sliceSize
         < size2D(lh.weightType, hdr.dim, QDim(hdr))

\* the step ends layer l of the file for the node
EndsLayer == lpc \in {"layer", "ops"} /\ loadLayerIndex' = loadLayerIndex + 1

\* C17: every layer moves the file pointer of every node by
\* calculateLayerBytes, whether the node skips the layer or loads it tensor
\* by tensor, for dense, MoE and Qwen3 files; a layer of the node whose
\* loads add up to another total ends the loading in an error, and no
\* loading goes on past such a layer.
C17_LayerAdvanceIsLayerBytes ==
    [][/\ EndsLayer =>
            filePtr' - (IF lpc = "ops" THEN layerStartPtr ELSE filePtr) = calculateLayerBytes(hdr, lh)
       /\ (lpc = "ops" /\ lpc' # "ops") =>
            IF filePtr - layerStartPtr = calculateLayerBytes(hdr, lh)
            THEN lpc' = "layer" /\ loadLayerIndex' = loadLayerIndex + 1
            ELSE lpc' = "failed" /\ loadLayerIndex' = loadLayerIndex
       /\ (lpc = "ops" /\ opIndex' = opIndex + 1 /\ opIndex = Len(LayerLoads(hdr, lh, plan, loaderNodeIndex)))
            => filePtr' - layerStartPtr = calculateLayerBytes(hdr, lh)
       /\ lpc = "failed" => lpc' = "failed"
      ]_vars

\* a node of the second of three stages has loaded a Qwen3 MoE file to its
\* end: it skipped the layers of the other stages and loaded its own
C17_Witness ==
    /\ lpc = "done"
    /\ plan.nStages = 3
    /\ StageOfNode(plan, loaderNodeIndex) = 2
    /\ lh.archType = "QWEN3_MOE" /\ lh.nExperts > 0
    /\ filePtr = size2D("F_32", hdr.vocabSize, hdr.dim) + hdr.nLayers * calculateLayerBytes(hdr, lh)
                 + finalBlockBytes(hdr, lh)

(***************************************************************************)
(* Properties of the plan: alignment and layers.                           *)
(***************************************************************************)
\* the last member of a stage
LastNodeOf(st) == st.rootNodeIndex + st.nNodes - 1

\* C18: in every plan the vocab, FFN and hidden-dim lengths of every member
\* of a stage but its last are multiples of 32 (of 1 for the KV heads,
\* which any length is).
C18_NonLastLengthsAligned ==
    Planned =>
        \A s \in 1..plan.nStages : \A i \in StageNodes(plan.stages[s]) \ {LastNodeOf(plan.stages[s])} :
            /\ plan.vocabSplit.lengths[i] % DimAlign = 0
            /\ plan.ffnSplit.lengths[i] % DimAlign = 0
            /\ plan.dimSplit.lengths[i] % DimAlign = 0
            /\ plan.kvHeadSplit.lengths[i] % KvAlign = 0

\* C19: in every plan, a stage of N members and a split of total T with
\* T >= N * alignSize give every member of the stage, the last one too, a
\* length of at least alignSize.
C19_EveryMemberGetsABlock ==
    Planned =>
        \A s \in 1..plan.nStages : \A i \in StageNodes(plan.stages[s]) :
            LET N == plan.stages[s].nNodes
            IN /\ hdr.vocabSize >= N * DimAlign => plan.vocabSplit.lengths[i] >= DimAlign
               /\ hdr.ffnDim >= N * DimAlign => plan.ffnSplit.lengths[i] >= DimAlign
               /\ hdr.dim >= N * DimAlign => plan.dimSplit.lengths[i] >= DimAlign
               /\ hdr.nKvHeads >= N * KvAlign => plan.kvHeadSplit.lengths[i] >= KvAlign

\* C20: every stage parseStageDefs returns for a ratios string it accepts
\* has nLayers >= 1.
C20_EveryStageHasALayer ==
    (pc = "parsed" /\ ratiosStr # <<>>) => \A s \in 1..Len(stageDefs) : stageDefs[s].nLayers >= 1

\* C21: in every plan each of the five splits, summed over all nNodes
\* entries, equals that split's global dimension.
C21_SplitsSumToGlobal ==
    Planned =>
        /\ getSplitTotal(plan.headSplit, plan.nNodes) = hdr.nHeads
        /\ getSplitTotal(plan.kvHeadSplit, plan.nNodes) = hdr.nKvHeads
        /\ getSplitTotal(plan.vocabSplit, plan.nNodes) = hdr.vocabSize
        /\ getSplitTotal(plan.ffnSplit, plan.nNodes) = hdr.ffnDim
        /\ getSplitTotal(plan.dimSplit, plan.nNodes) = hdr.dim

(***************************************************************************)
(* The bytes of SYNC_NODE_SLICES.                                          *)
(***************************************************************************)
\* the bytes of the ios in q
IoBytes(q) == SumSeq([i \in 1..Len(q) |-> q[i].len])

\* the bytes all threads of node n hand to writeMany / readMany in sync si
\* of segment g, for one batch row
WrittenIn(n, g, si) == SumSeq([u \in 1..nThreads |-> IoBytes(ThreadIos(n, u - 1, g, si).writes)])
ReadIn(n, g, si) == SumSeq([u \in 1..nThreads |-> IoBytes(ThreadIos(n, u - 1, g, si).reads)])

\* sliceSizes[m] of the row the sync moves
SliceBytes(m, pipe) == fillUnevenSlices(plan, plan.nNodes, PipeBytes(hdr, plan.nNodes, pipe)).sizes[m]

\* the syncs of type SYNC_NODE_SLICES of the running nodes
NodeSliceSyncs ==
    { <<n, g, si>> \in UNION { UNION { { <<n, g, si>> : si \in DOMAIN SyncsOf(n, g) }
                                       : g \in DOMAIN nodeConfig[n] } : n \in Nodes } :
        SyncsOf(n, g)[si].syncType = "SYNC_NODE_SLICES" }

\* C22 (as amended): for each SYNC_NODE_SLICES in a stage of N nodes and each
\* batch row, a node writes (N-1) times its own slice and reads the slice of
\* each of the N-1 other nodes of the stage once.
C22_SliceBytesPerSync ==
    Running =>
        \A x \in NodeSliceSyncs :
            LET n == x[1]
                pipe == SyncsOf(n, x[2])[x[3]].pipe
                others == StageNodes(StageOf(n)) \ {n}
            IN /\ WrittenIn(n, x[2], x[3]) = (StageOf(n).nNodes - 1) * SliceBytes(n, pipe)
               /\ ReadIn(n, x[2], x[3]) = SumOver([m \in others |-> SliceBytes(m, pipe)], others)

\* C22 as stated: the bytes read are also (N-1) times the node's own slice
C22_ReadsEqualOwnSlices ==
    Running =>
        \A x \in NodeSliceSyncs :
            ReadIn(x[1], x[2], x[3])
                = (StageOf(x[1]).nNodes - 1) * SliceBytes(x[1], SyncsOf(x[1], x[2])[x[3]].pipe)

\* a node of a stage whose slices differ has written its slice to the
\* others in a SYNC_NODE_SLICES and is reading theirs
C22_Witness ==
    /\ Running
    /\ \E x \in NodeSliceSyncs :
          LET n == x[1]
              pipe == SyncsOf(n, x[2])[x[3]].pipe
          IN /\ \E m \in StageNodes(StageOf(n)) : SliceBytes(m, pipe) # SliceBytes(n, pipe)
             /\ npc[n] = "sync" /\ segmentIndex[n] = x[2]
             /\ \A t \in Threads : thr[n][t].si = x[3] /\ thr[n][t].ph = "recv"
             /\ ReadIn(n, x[2], x[3]) # WrittenIn(n, x[2], x[3])

\* C23: the node config of a node whose stage has exactly one node holds no
\* sync of type SYNC_NODE_SLICES in any segment.
C23_SingleNodeStageHasNoSliceSync ==
    Running =>
        \A n \in Nodes :
            StageOf(n).nNodes = 1 =>
                \A g \in DOMAIN nodeConfig[n] :
                    \A si \in DOMAIN SyncsOf(n, g) : SyncsOf(n, g)[si].syncType # "SYNC_NODE_SLICES"

(***************************************************************************)
(* Properties of parseStageDefs.                                           *)
(***************************************************************************)
\* the stage definitions of the two readings of the string: every segment a
\* stage, or the segments after the stage weights
LegacyStages(str) == [i \in 1..Len(splitStages(str)) |-> ParsedStage(splitStages(str)[i])]
TwoLevelStages(str) == [i \in 1..(Len(splitStages(str)) - 1) |-> ParsedStage(splitStages(str)[i + 1])]

\* C24: the stage definitions parseStageDefs returns have as many TP members
\* in total as the expected node count; a string whose members differ from
\* it in both readings is rejected.
C24_MemberCountIsNodeCount ==
    /\ (ratiosStr # <<>> /\ stageDefs # <<>>) => sumNodeCounts(stageDefs) = nNodesArg
    /\ (ratiosStr # <<>> /\ pc # "start"
        /\ sumNodeCounts(LegacyStages(ratiosStr)) # nNodesArg
        /\ sumNodeCounts(TwoLevelStages(ratiosStr)) # nNodesArg) => (pc = "failed" /\ stageDefs = <<>>)

\* a well-formed two-level string with the wrong number of members has been
\* rejected
C24_Witness ==
    /\ pc = "failed"
    /\ stageDefs = <<>>
    /\ nNodesArg <= hdr.nKvHeads
    /\ Len(splitStages(ratiosStr)) >= 3
    /\ \A i \in 1..Len(splitStages(ratiosStr)) : parseRatiosAndMaybeLayers(splitStages(ratiosStr)[i]).ok
    /\ Len(parseRatiosAndMaybeLayers(splitStages(ratiosStr)[1]).ratios) = Len(splitStages(ratiosStr)) - 1
    /\ parseRatiosAndMaybeLayers(splitStages(ratiosStr)[1]).layers = 0
    /\ sumNodeCounts(LegacyStages(ratiosStr)) # nNodesArg
    /\ sumNodeCounts(TwoLevelStages(ratiosStr)) # nNodesArg

\* C25: when the TP ratios of a stage sum to (nearly) zero and nothing else
\* is wrong with the stage definitions, createPartitionPlan does not fail:
\* a plan is made, with the stage's dimensions split evenly.
C25_ZeroRatioSumFallsBackToUniform ==
    (/\ stageDefs # <<>>
     /\ pc \in {"failed", "planned"}
     /\ \A s \in 1..Len(stageDefs) : Len(stageDefs[s].tpRatios) > 0
     /\ hdr.nHeads % hdr.nKvHeads = 0
     /\ \E s \in 1..Len(stageDefs) : SumSeq(stageDefs[s].tpRatios) = 0)
        => pc = "planned"

(***************************************************************************)
(* Properties of the bootstrap packet.                                     *)
(***************************************************************************)
\* the string the worker holds for a char pointer of the root: the empty
\* string for a null pointer
StringOf(ptr) == IF ptr = NullPtr THEN <<>> ELSE ptr

\* C26: what readBootstrapPacket returns from the bytes writeBootstrapPacket
\* wrote has the field values and the strings of the root's arguments, for
\* every benchmark flag, maxSeqLen, syncType, and present or absent model
\* path and ratios; the reader takes every byte written and never throws.
C26_BootstrapRoundTrip ==
    /\ bootPc # "threw"
    /\ bootPc = "read" =>
          /\ bootPacket.magic = LLM_BOOTSTRAP_MAGIC
          /\ bootPacket.version = LLM_BOOTSTRAP_VERSION
          /\ bootPacket.benchmarkEnabled = (IF bootArgs.benchmark THEN 1 ELSE 0)
          /\ bootPacket.maxSeqLen = bootArgs.maxSeqLen
          /\ bootPacket.syncType = bootArgs.syncType
          /\ HasFlag(bootPacket.flags, LLM_BOOTSTRAP_HAS_MODEL_PATH) <=> bootArgs.modelPath # NullPtr
          /\ HasFlag(bootPacket.flags, LLM_BOOTSTRAP_HAS_RATIOS) <=> bootArgs.ratiosStr # NullPtr
          /\ bootModelPath = StringOf(bootArgs.modelPath)
          /\ bootRatios = StringOf(bootArgs.ratiosStr)
          /\ bootWire = <<>>

\* the worker has read a packet that came with a model path and a ratios
\* string of different lengths, the largest maxSeqLen and a syncType not 0
C26_Witness ==
    /\ bootPc = "read"
    /\ Len(StringOf(bootArgs.modelPath)) > Len(StringOf(bootArgs.ratiosStr))
    /\ Len(bootRatios) > 0
    /\ bootPacket.maxSeqLen = MaxUint
    /\ bootArgs.syncType > 0

(***************************************************************************)
(* Properties of the config stream.                                        *)
(***************************************************************************)
\* C27: the NnNetConfig and the NnNodeConfig a worker has read have the
\* field values of those the root wrote for that worker (pipes, pre-syncs,
\* buffers, segments, syncs, ops, pointer configs, op config blobs), no ACK
\* check fails, and a reader that is done has consumed exactly the bytes
\* written to it.
C27_ConfigRoundTrip ==
    pc = "config" =>
        /\ rootConfigPc.at # "threw"
        /\ \A n \in ConfigWorkers :
              /\ readerPc[n] # "threw"
              /\ readerPc[n] \in {"node", "done"} => readNetConfig[n] = rootNetConfig
              /\ readerPc[n] = "done" =>
                    /\ readNodeConfig[n] = rootNodeConfigs[n]
                    /\ nConsumed[n] = nWritten[n]
                    /\ downStream[n] = <<>>

\* the root is done with two workers, one of which read segments without
\* syncs or ops and ops with and without a config blob
C27_Witness ==
    /\ pc = "config"
    /\ rootConfigPc.at = "done"
    /\ Cardinality(ConfigWorkers) >= 2
    /\ \A n \in ConfigWorkers : readerPc[n] = "done"
    /\ \E n \in ConfigWorkers :
          /\ readNodeConfig[n].nSegments = 3
          /\ \E g \in 1..3 : readNodeConfig[n].segments[g].nOps = 0 /\ readNodeConfig[n].segments[g].nSyncs = 0
          /\ \E g \in 1..3 : \E o \in 1..readNodeConfig[n].segments[g].nOps :
                readNodeConfig[n].segments[g].ops[o].configSize > 0
          /\ \E g \in 1..3 : \E o \in 1..readNodeConfig[n].segments[g].nOps :
                readNodeConfig[n].segments[g].ops[o].configSize = 0
    /\ readNetConfig[1].nPreSyncs = 1


\* worker i has begun the peer phase of serve()
InPeerPhase(i) == servePc[i] \in {"peers", "initialized"}

\* the root has read the ACK of every worker
RootHasEveryAck == connectPc.at = "initialized"

\* C28 (as the code has it): a worker connects to or accepts a peer worker
\* only after it has read its complete address list and the root has read
\* the ACK of every worker, and the first socket of every worker is the
\* root's; over the connection of a worker and the root the address list
\* comes first, preceded by no ACK, and is followed by the ACK of the
\* worker and then by the ACK of the root.
C28_PeersAfterAddressesAndAcks ==
    \A i \in ServeWorkers :
        /\ exchanged[i] = SubSeq(<<"addresses", "ACK_from_worker", "ACK_from_root">>, 1, Len(exchanged[i]))
        /\ (Len(sockets[i]) > 1 \/ \E j \in ServeWorkers : \E k \in 1..Len(backlog[j]) : backlog[j][k] = NodeOfWorker(i)) => InPeerPhase(i)
        /\ sockets[i] # <<>> => sockets[i][1] = 0
        /\ InPeerPhase(i) =>
              /\ hosts[i] = AddressesFor(i)
              /\ serveNodeIndex[i] = i
              /\ RootHasEveryAck
              /\ Len(exchanged[i]) = 3

\* C28 reached: of three workers one has connected to a peer and another
\* accepted a peer, after the three exchanges with the root
C28_Witness ==
    /\ nSockets = 3
    /\ \E i, j \in ServeWorkers :
          /\ i < j
          /\ Len(sockets[i]) > 1 /\ Len(sockets[j]) > 1
          /\ sockets[j][2] = NodeOfWorker(i)
    /\ \A i \in ServeWorkers : exchanged[i] = <<"addresses", "ACK_from_worker", "ACK_from_root">>

\* C28 (as the spec words it): as above, and the address list of every
\* worker is both preceded and followed by an ACK on its connection
C28_AckBeforeAndAfterAddresses ==
    \A i \in ServeWorkers :
        /\ InPeerPhase(i) => hosts[i] = AddressesFor(i) /\ RootHasEveryAck
        /\ \A k \in 1..Len(exchanged[i]) :
              exchanged[i][k] = "addresses" =>
                 /\ k > 1 /\ exchanged[i][k - 1] \in {"ACK_from_worker", "ACK_from_root"}
                 /\ InPeerPhase(i) => k < Len(exchanged[i])


\* the lengths of a split over the nodes first .. first + 1
PairOf(split, first) == <<split.lengths[first], split.lengths[first + 1]>>

\* C29: for 16 heads, 8 KV heads, dim 1024, 24 layers, 4 nodes and the
\* ratios "1:2*1:1@10*2:3@14", parsing and planning do not fail and the
\* plan has 2 stages of 2 nodes with 10 and 14 layers; stage 0 has the KV
\* split [4,4], the Q split [8,8] and the hidden split [512,512]; in each
\* stage both halves of the hidden split are >= 32 and sum to 1024.
C29_WorkedExamplePlan ==
    (ratiosStr = CaseRatios /\ nNodesArg = 4 /\ hdr \in CaseHeaders) =>
        /\ pc # "failed"
        /\ pc = "planned" =>
              /\ plan.nNodes = 4 /\ plan.nStages = 2 /\ Len(plan.stages) = 2
              /\ plan.stages[1].nNodes = 2 /\ plan.stages[2].nNodes = 2
              /\ plan.stages[1].nodeIndices = <<0, 1>> /\ plan.stages[2].nodeIndices = <<2, 3>>
              /\ plan.stages[1].nLayers = 10 /\ plan.stages[2].nLayers = 14
              /\ PairOf(plan.kvHeadSplit, 0) = <<4, 4>>
              /\ PairOf(plan.headSplit, 0) = <<8, 8>>
              /\ PairOf(plan.dimSplit, 0) = <<512, 512>>
              /\ \A first \in {0, 2} :
                    /\ plan.dimSplit.lengths[first] >= 32
                    /\ plan.dimSplit.lengths[first + 1] >= 32
                    /\ plan.dimSplit.lengths[first] + plan.dimSplit.lengths[first + 1] = 1024

\* C29 reached: the plan of the worked example, whose second stage splits
\* the hidden dimension unevenly
C29_Witness ==
    /\ ratiosStr = CaseRatios /\ nNodesArg = 4 /\ hdr \in CaseHeaders
    /\ pc = "planned"
    /\ PairOf(plan.dimSplit, 2) = <<416, 608>>


\* the ios thread t of node n has in sync si of segment g
IosOf(n, t, g, si) ==
    LET ios == ThreadIos(n, t, g, si)
    IN { ios.writes[k] : k \in 1..Len(ios.writes) } \cup { ios.reads[k] : k \in 1..Len(ios.reads) }

\* C30: on every node a and for every other node b it addresses in
\* SYNC_WITH_ROOT, SYNC_NODE_SLICES, SYNC_PP_SEND or SYNC_PP_RECV, the
\* socket getSocketIndexForNode(b) of a is the socket serve/connect
\* connected to node b.
C30_SocketOfNodeReachesNode ==
    Running =>
        \A a \in Nodes : \A g \in 1..Len(nodeConfig[a]) : \A si \in 1..Len(SyncsOf(a, g)) :
            SyncsOf(a, g)[si].syncType \in {"SYNC_WITH_ROOT", "SYNC_NODE_SLICES", "SYNC_PP_SEND", "SYNC_PP_RECV"}
            => \A t \in Threads : \A io \in IosOf(a, t, g, si) :
                  /\ io.node # a
                  /\ io.sock = getSocketIndexForNode(io.node)
                  /\ PeerOf(a, io.sock) = io.node


\* C32: on a worker that has left serve(), the socket at index k + 1 is
\* connected to the k-th peer of the address list it read from the root,
\* under every order in which the connections of lower workers arrive.
C32_SocketsFollowAddressList ==
    \A i \in ServeWorkers :
        servePc[i] = "initialized" =>
            /\ Len(sockets[i]) = Len(hosts[i]) + 1
            /\ \A k \in 1..Len(hosts[i]) : sockets[i][k + 1] = NodeOfWorker(hosts[i][k])


\* C37: in every plan of a command line accepted at startup (nNodes <=
\* nKvHeads) whose TP ratios are all positive, every node has at least one
\* KV head.
C37_EveryNodeHasAKvHead ==
    (/\ Planned
     /\ ratiosStr # <<>>
     /\ nNodesArg <= hdr.nKvHeads
     /\ \A s \in 1..Len(stageDefs) : \A k \in 1..Len(stageDefs[s].tpRatios) : stageDefs[s].tpRatios[k] > 0)
    => \A n \in 0..(plan.nNodes - 1) : plan.kvHeadSplit.lengths[n] >= 1


\* the threads of node a that have an io on socket s in sync si of segment g
ThreadsOnSocket(a, g, si, s) == { t \in Threads : \E io \in IosOf(a, t, g, si) : io.sock = s }

\* the threads of node a that have an io meant for node b in sync si of segment g
ThreadsForNode(a, g, si, b) == { t \in Threads : \E io \in IosOf(a, t, g, si) : io.node = b }

\* C38: in the root side of SYNC_WITH_ROOT and in SYNC_NODE_SLICES every
\* target node and every target socket is served by exactly one thread,
\* for every thread count; SYNC_PP_SEND and SYNC_PP_RECV are done by
\* thread 0 only.
C38_OneThreadPerTargetSocket ==
    Running =>
        \A a \in Nodes : \A g \in 1..Len(nodeConfig[a]) : \A si \in 1..Len(SyncsOf(a, g)) :
            LET type == SyncsOf(a, g)[si].syncType
                all == UNION { IosOf(a, t, g, si) : t \in Threads }
            IN /\ type \in {"SYNC_WITH_ROOT", "SYNC_NODE_SLICES"} =>
                     /\ \A io \in all : Cardinality(ThreadsForNode(a, g, si, io.node)) = 1
                     /\ \A io \in all : Cardinality(ThreadsOnSocket(a, g, si, io.sock)) = 1
               /\ type \in {"SYNC_PP_SEND", "SYNC_PP_RECV"} =>
                     \A t \in Threads \ {0} : IosOf(a, t, g, si) = {}


\* C36: tryReadControlPacket returns false only when the call has taken no
\* byte from the socket; a call that has taken a byte goes on until it has
\* the whole packet, so the packets the calls return are the packets the
\* root wrote, in order, and a call starts at the first byte of a packet.
C36_NoPartialControlPacket ==
    /\ (tryPc = "idle" /\ tryResult = "false") => tryData = <<>>
    /\ Len(tryPackets) <= Len(trySent)
    /\ tryPackets = SubSeq(trySent, 1, Len(tryPackets))
    /\ tryPc = "recv" =>
          tryData = SubSeq(Flat([k \in 1..Len(trySent) |-> ControlPacketBytesOf(trySent[k])]),
                           ControlPacketBytes * Len(tryPackets) + 1,
                           ControlPacketBytes * Len(tryPackets) + Len(tryData))

\* C36 reached: a call on the non-blocking socket that has spent an
\* attempt and then taken a part of the second packet finds the socket
\* empty, and stays in its loop
C36_Witness ==
    /\ ~tryBlocking
    /\ tryPc = "recv"
    /\ Len(tryPackets) = 1
    /\ Len(tryData) > 0 /\ Len(tryData) < ControlPacketBytes
    /\ rcvBuf = <<>>
    /\ tryAttempts < TryMaxAttempts
    /\ ENABLED RecvEagain


\* C39: the plan move-constructed from the result of createPartitionPlan
\* has the nNodes, nStages, stages and five splits the source had, and
\* getStageForNode finds the stage of every node in it.
C39_MovedPlanIsTheSourcePlan ==
    pc = "moved" =>
        LET source == createPartitionPlan(stageDefs, hdr)
        IN /\ plan.nNodes = source.nNodes
           /\ plan.headSplit = source.headSplit /\ plan.kvHeadSplit = source.kvHeadSplit
           /\ plan.vocabSplit = source.vocabSplit /\ plan.ffnSplit = source.ffnSplit
           /\ plan.dimSplit = source.dimSplit
           /\ plan.nStages = source.nStages
           /\ plan.stages = source.stages
           /\ \A n \in 0..(plan.nNodes - 1) : n \in StageNodes(plan.stages[StageOfNode(plan, n)])


\* buildLlmNodeInternal: the ops of node n built with a weight size other
\* than size0(), as (op name, op index) pairs
WeightedOps(h, x, p, n) ==
    LET stage == p.stages[StageOfNode(p, n)]
        first == stage.stageIndex = 0
        last == stage.stageIndex = p.nStages - 1
        perLayer == {"block_norm_0", "block_matmul_q", "block_matmul_k", "block_matmul_v",
                     "block_matmul_wo", "block_norm_1",
                     "block_matmul_w1", "block_matmul_w3", "block_matmul_w2"}
                    \cup (IF x.archType \in {"QWEN3", "QWEN3_MOE"} THEN {"block_norm_q", "block_norm_k"} ELSE {})
                    \cup (IF x.archType = "QWEN3_MOE" THEN {"block_moe_gate"} ELSE {})
    IN (IF first /\ n = 0 THEN {<<"embedding", 0>>} ELSE {})
       \cup { <<name, layerIndex>> : name \in perLayer, layerIndex \in stage.startLayer..(stage.endLayer - 1) }
       \cup (IF last THEN {<<"final_norm", 0>>, <<"final_matmul_logits", 0>>} ELSE {})

\* C33: for every plan and node, the (op name, op index) weights the loader
\* has handed to the executor when it is done are the weighted ops of the
\* node's NodeConfig; "embedding" is handed over only on a node whose graph
\* has the embedding op.
C33_LoadedWeightsAreTheWeightedOps ==
    /\ lpc = "done" => executorWeights = WeightedOps(hdr, lh, plan, loaderNodeIndex)
    /\ <<"embedding", 0>> \in executorWeights
          => <<"embedding", 0>> \in WeightedOps(hdr, lh, plan, loaderNodeIndex)

(***************************************************************************)
(* nn-cpu.cpp, NnCpuDeviceSegment construction: an OP_CAST whose output is *)
(* a BATCHED_SLICE pointer writes as many elements as its input holds, at  *)
(* the offset resolvePointer gave.  The casts into ZQ read the y buffer    *)
(* (dim elements), the cast into LG reads the lg buffer (the node's share  *)
(* of the vocabulary).                                                     *)
(***************************************************************************)
CastInputLen(h, p, n, size) ==
    IF size.name = "LG" THEN p.vocabSplit.lengths[n] ELSE h.dim

CastOutput(h, p, n, size) ==
    [offset |-> resolvePointer(p, p.nNodes, n, size).offset,
     length |-> getBytes(size.floatType, CastInputLen(h, p, n, size))]

\* the nodes whose graph holds a cast into the pipe: every node for ZQ, the
\* nodes of the last stage for LG
CastWriters(p, size) ==
    IF size.name = "LG" THEN StageNodes(p.stages[p.nStages]) ELSE 0..(p.nNodes - 1)

RegionsDisjoint(r1, r2) ==
    r1.offset + r1.length <= r2.offset \/ r2.offset + r2.length <= r1.offset

\* C34: for the pipe resolved through a BATCHED_SLICE pointer, the regions
\* written by the nodes of the stage of the resolving node lie inside the
\* pipe row and are pairwise disjoint.
C34_SliceWritesDisjointInRow ==
    pc = "resolved" =>
        LET stage == StageNodes(plan.stages[StageOfNode(plan, nodeIndex)])
                     \cap CastWriters(plan, sourceSize)
            rowBytes == getBytes(sourceSize.floatType, sourceSize.x)
        IN /\ \A a \in stage :
                 CastOutput(hdr, plan, a, sourceSize).offset
                   + CastOutput(hdr, plan, a, sourceSize).length <= rowBytes
           /\ \A a, b \in stage :
                 a # b => RegionsDisjoint(CastOutput(hdr, plan, a, sourceSize),
                                          CastOutput(hdr, plan, b, sourceSize))

\* the bytes of a row that slice n of the exchange covers
ExchangedBytes(f, n) == f.offsets[n]..(f.offsets[n] + f.sizes[n] - 1)

\* C35: after the LG gather the slices of the nodes of the last stage are
\* pairwise disjoint, cover the whole LG row, and each one is the owner's
\* range of the vocabulary, at the place where the owner's cast wrote it: the
\* row of the root holds the logit of every vocabulary index exactly once.
C35_LogitsGatheredOncePerIndex ==
    (pc = "sliced" /\ sourceSize.name = "LG") =>
        LET last == StageNodes(plan.stages[plan.nStages])
            rowBytes == getBytes(sourceSize.floatType, sourceSize.x)
            f == fillUnevenSlices(plan, plan.nNodes, rowBytes)
        IN /\ \A a \in last :
                 /\ f.offsets[a] = getBytes(sourceSize.floatType, plan.vocabSplit.starts[a])
                 /\ f.sizes[a] = getBytes(sourceSize.floatType, plan.vocabSplit.lengths[a])
                 /\ f.sizes[a] > 0 =>
                       CastOutput(hdr, plan, a, sourceSize) = [offset |-> f.offsets[a], length |-> f.sizes[a]]
           /\ \A a, b \in last : a # b => ExchangedBytes(f, a) \cap ExchangedBytes(f, b) = {}
           /\ UNION { ExchangedBytes(f, a) : a \in last } = 0..(rowBytes - 1)

(***************************************************************************)
(* SYNC_NODE_SLICES over sockets of finite capacity.                       *)
(***************************************************************************)
CanStep(k) ==
    \/ exPhase[k] = "write" /\ \E i \in 1..Len(exIos[k]) :
          exIos[k][i].len > 0 /\ wire[<<k[1], PeerOf(k[1], exIos[k][i].sock)>>] < SocketCapacity
    \/ exPhase[k] = "read" /\ \E i \in 1..Len(exIos[k]) :
          exIos[k][i].len > 0 /\ wire[<<PeerOf(k[1], exIos[k][i].sock), k[1]>>] > 0
    \/ exPhase[k] \in {"write", "read"} /\ \A i \in 1..Len(exIos[k]) : exIos[k][i].len = 0

\* thread k is in writeMany with bytes left for node b, whose connection is full
SendBlockedOn(k, b) ==
    /\ exPhase[k] = "write"
    /\ \E i \in 1..Len(exIos[k]) :
          /\ exIos[k][i].len > 0
          /\ PeerOf(k[1], exIos[k][i].sock) = b
          /\ wire[<<k[1], b>>] = SocketCapacity

\* C31: SYNC_NODE_SLICES never comes to a stop with two peers in their send
\* phase, each with bytes left for the other on a full connection and
\* neither receiving, whatever the size of the slices.
C31_NoMutualSendBlock ==
    pc = "syncing" =>
        ~ /\ \A k \in ExchangeThreads : ~CanStep(k)
          /\ \E k, l \in ExchangeThreads :
                k[1] # l[1] /\ SendBlockedOn(k, l[1]) /\ SendBlockedOn(l, k[1])

====
